---- MODULE Spec2Model ----
(***************************************************************************)
(* The client-side router of the kit runtime (create_client): route        *)
(* matching, load_route / load_node, the result cache, prefetching,        *)
(* invalidation, update() with its cancellation token, redirects, history  *)
(* and scroll bookkeeping.  async functions are cut at their awaits: each   *)
(* action is the code that runs between two suspension points.             *)
(***************************************************************************)
EXTENDS Integers, Sequences, FiniteSets, TLC

VARIABLES
    cfg,                    \* what create_client is built on: manifest, loaders, trailing_slash
    cache,                  \* Map<string, NavigationResult>
    timers,                 \* the clear() closures armed by get_navigation_result_from_branch
    invalidated,            \* the predicates pushed by invalidate()
    load_cache,             \* { id, promise }
    current,                \* NavigationState
    started, autoscroll, updating, session_id, invalidating,
    session,                \* $session
    current_history_index, token,
    scroll_positions, scrollY,
    hist,                   \* the browser's session history and the active entry
    unloaded,               \* location.href was assigned: the document is being replaced
    navigating,             \* stores.navigating
    rendered,               \* what root.$set / new Root last received
    upd,                    \* the update() calls made so far, each with its position
    loads,                  \* the load_route() calls made so far, each with its position
    invalidate_calls,       \* how many times invalidate() was called with each href
    hash_navigating,        \* a click on a link to a fragment of this page was let through
    cancelled,              \* how many navigate() calls a before_navigate callback cancelled
    now                     \* seconds since construction

vars == << cfg, cache, timers, invalidated, load_cache, current, started, autoscroll,
           updating, session_id, invalidating, session, current_history_index, token,
           scroll_positions, scrollY, hist, unloaded, navigating, rendered, upd, loads,
           invalidate_calls, hash_navigating, cancelled, now >>

-----------------------------------------------------------------------------
(* Bounds of the model *)

MaxUpdates == 2
MaxLoads == 3
MaxTime == 1
MaxSession == 2
MaxInvalidate == 1
MaxChain == 12
MaxReplays == 3
MaxCancels == 1
MaxEntries == 3

\* how far the links may drive current_history_index
MaxIndex == 3

(* Program constants *)

MaxRedirects == 10
BaseIndex == 5
CacheMaxage == 1

-----------------------------------------------------------------------------
(* Values *)


Last(s) == s[Len(s)]

NoParams == [x \in {} |-> "none"]
NoStuff == [x \in {} |-> "none"]

\* a URL of the app's origin
Url(p, sl, q, h) == [origin |-> "app", path |-> p, slash |-> sl, search |-> q, hash |-> h]

Plain(p) == Url(p, FALSE, "", "")

NoUrl == Url("none", FALSE, "", "")

\* the URL of another origin
External(p) == [Plain(p) EXCEPT !.origin = "other"]

\* url.href.split('#')[0]
base_of(url) == [url EXCEPT !.hash = ""]

\* url.pathname
pathname(url) == [path |-> url.path, slash |-> url.slash]

\* normalize_path(path, trailing_slash) of utils/url.js
normalize_path(pn, trailing_slash) ==
    CASE trailing_slash = "never" -> [pn EXCEPT !.slash = FALSE]
      [] trailing_slash = "always" -> [pn EXCEPT !.slash = TRUE]
      [] OTHER -> pn

\* url.pathname + url.search
path_search(url) == [path |-> url.path, slash |-> url.slash, search |-> url.search]

NoId == [path |-> "none", slash |-> FALSE, search |-> ""]

NoUses == [params |-> {}, url |-> FALSE, session |-> FALSE, stuff |-> FALSE,
           dependencies |-> {}]

NoLoaded == [kind |-> "null", status |-> 0, error |-> "none", redirect |-> NoUrl,
             has_stuff |-> FALSE, stuff |-> NoStuff, maxage |-> 0]

NoNid == << 0, 0, "none" >>

NoCalls == [href \in {} |-> 0]

\* nid names the load_node call that made the node; saw_session and saw_calls are the
\* session value and the invalidate() calls made when it ran, `saw` what its loader
\* read of params (a key that was absent read as undefined), stuff and url; props is
\* what load_node was given as props: nothing, {} or the body of the shadow
\* endpoint's response
NoNode == [module |-> "none", uses |-> NoUses, loaded |-> NoLoaded, stuff |-> NoStuff,
           nid |-> NoNid, saw_session |-> 0, saw_calls |-> NoCalls, props |-> "none",
           saw |-> [params |-> NoParams, stuff |-> NoStuff, url |-> NoUrl]]

NoState == [url |-> NoUrl, params |-> NoParams, branch |-> << >>, error |-> "none",
            stuff |-> NoStuff, stuff_is_root |-> TRUE, session_id |-> 0]

\* rid names the call that made the result object, `at` is when it was made
NoResult == [rid |-> 0, redirect |-> NoUrl, state |-> NoState, status |-> 0,
             has_page |-> FALSE, root_error |-> FALSE, at |-> 0]

\* { ...a, ...b }
Merge(a, b) ==
    [k \in DOMAIN a \cup DOMAIN b |-> IF k \in DOMAIN b THEN b[k] ELSE a[k]]

-----------------------------------------------------------------------------
(* The manifest and the loaders: routes = parse(components, dictionary,    *)
(* matchers); a loader's behaviour is what its module.load does.           *)

routes == cfg.routes

default_layout == "L0"

default_error == "E0"

\* What module.load returns for this page URL.
Returned(beh, url) ==
    IF beh.ret = "byurl"
    THEN IF cfg.redir[url.path] = "none" THEN "value" ELSE "redirect"
    ELSE IF beh.ret = "bysearch"
    THEN IF url.search = "" THEN "value" ELSE "throw"
    ELSE IF beh.ret = "errbysearch"
    THEN IF url.search = "" THEN "value" ELSE "error"
    ELSE IF beh.ret = "barebysearch"
    THEN IF url.search = "" THEN "value" ELSE "bare"
    ELSE beh.ret

\* normalize(loaded) of ../load.js on what module.load returned
normalize(beh, url) ==
    LET ret == Returned(beh, url) IN
    CASE ret = "error" ->
            [NoLoaded EXCEPT !.kind = "error", !.status = beh.status, !.error = "load error"]
      [] ret = "redirect" ->
            [NoLoaded EXCEPT !.kind = "redirect", !.status = 302,
                             !.redirect = Plain(IF beh.ret = "byurl"
                                                THEN cfg.redir[url.path] ELSE beh.target)]
      [] OTHER ->
            [NoLoaded EXCEPT !.kind = "value", !.has_stuff = beh.has_stuff /\ ret # "bare",
                             !.stuff = IF ret = "bare" THEN NoStuff ELSE beh.stuff,
                             !.maxage = beh.maxage]

\* load_node: the node, or the exception it throws
load_node(nid, module, url, params, stuff, has_props) ==
    LET beh == cfg.mods[module]
        ret == Returned(beh, url)
        threw == beh.has_load /\ ret \in {"throw", "nothing"}
        loaded == IF beh.has_load THEN normalize(beh, url)
                  ELSE IF has_props THEN [NoLoaded EXCEPT !.kind = "value"]
                  ELSE NoLoaded
        uses == [params |-> IF beh.has_load THEN beh.reads_params \cap DOMAIN params ELSE {},
                 url |-> beh.has_load /\ beh.reads_url,
                 session |-> beh.has_load /\ beh.reads_session,
                 stuff |-> beh.has_load /\ beh.reads_stuff,
                 dependencies |-> (IF has_props THEN {url} ELSE {})
                                  \cup (IF beh.has_load THEN beh.deps ELSE {})]
    IN  [threw |-> threw,
         error |-> IF ret = "nothing" THEN "load function must return a value"
                   ELSE "thrown by load",
         node |-> [module |-> module, uses |-> uses, loaded |-> loaded,
                   stuff |-> IF loaded.has_stuff THEN loaded.stuff ELSE stuff,
                   nid |-> nid,
                   saw_session |-> IF beh.has_load /\ beh.reads_session THEN session ELSE 0,
                   saw_calls |-> invalidate_calls,
                   props |-> IF has_props THEN "empty" ELSE "none",
                   saw |-> [params |-> [k \in (IF beh.has_load THEN beh.reads_params
                                                ELSE {}) |->
                                          IF k \in DOMAIN params THEN params[k]
                                          ELSE "undefined"],
                            stuff |-> IF beh.has_load /\ beh.reads_stuff THEN stuff
                                      ELSE NoStuff,
                            url |-> IF beh.has_load /\ beh.reads_url THEN url ELSE NoUrl]]]

\* get_navigation_intent: the first route whose exec matches, in manifest order
RECURSIVE first_match(_, _)
first_match(path, k) ==
    IF k > Len(routes) THEN 0
    ELSE IF path \in DOMAIN routes[k].exec THEN k
    ELSE first_match(path, k + 1)

NoIntent == [id |-> NoId, route |-> 0, params |-> NoParams, url |-> NoUrl]

get_navigation_intent(url, loc) ==
    LET k == first_match(url.path, 1) IN
    IF url.origin # loc.origin \/ k = 0 THEN NoIntent
    ELSE [id |-> [path |-> url.path,
                  slash |-> normalize_path(pathname(url), cfg.trailing_slash).slash,
                  search |-> url.search],
          route |-> k,
          params |-> routes[k].exec[url.path],
          url |-> url]

-----------------------------------------------------------------------------
(* get_navigation_result_from_branch, load_root_error_page, load_route     *)

\* the first node of the branch whose loaded carries a redirect
RECURSIVE find_redirect(_, _)
find_redirect(branch, k) ==
    IF k > Len(branch) THEN NoUrl
    ELSE IF branch[k].loaded.kind = "redirect" THEN branch[k].loaded.redirect
    ELSE find_redirect(branch, k + 1)

\* The result object; whether it is put in the cache is leaf?.loaded?.cache.
get_navigation_result_from_branch(rid, url, params, stuff, stuff_is_root, branch, status, error, root_error) ==
    [rid |-> rid,
     redirect |-> find_redirect(branch, 1),
     state |-> [url |-> url, params |-> params, branch |-> branch, error |-> error,
                stuff |-> stuff, stuff_is_root |-> stuff_is_root,
                session_id |-> session_id],
     status |-> status,
     has_page |-> \/ current.url = NoUrl
                  \/ url # current.url
                  \/ error # "none"
                  \/ current.error # "none"
                  \/ ~(stuff_is_root /\ current.stuff_is_root),
     root_error |-> root_error,
     at |-> now]

\* leaf?.loaded?.cache of a result: the maxage it is cached for, 0 when it is not cached
cache_maxage(result) ==
    IF Len(result.state.branch) = 0 THEN 0 ELSE Last(result.state.branch).loaded.maxage

\* cache.set(key, result) with its timeout and session subscription
cache_set(result) ==
    LET key == path_search(result.state.url) IN
    [k \in DOMAIN cache \cup {key} |-> IF k = key THEN result ELSE cache[k]]

arm_clear(result) ==
    timers \cup {[key |-> path_search(result.state.url), rid |-> result.rid,
                  due |-> now + cache_maxage(result)]}

\* clear() of every closure in `fired`
cleared(c, fired) ==
    LET gone == { k \in DOMAIN c : \E t \in fired : t.key = k /\ t.rid = c[k].rid }
    IN  [k \in DOMAIN c \ gone |-> c[k]]

\* node.loaded?.stuff
loaded_stuff(node) == IF node.loaded.has_stuff THEN node.loaded.stuff ELSE NoStuff

\* the first load_node call of load_root_error_page
load_root_layout(owner, url) ==
    load_node(<< owner, 1, "root" >>, default_layout, url, NoParams, NoStuff, FALSE)

\* load_root_error_page once both nodes are loaded, or rejected when a load_node threw
root_error_page(owner, status, error, url, root_layout, root_error) ==
    IF root_layout.threw
    THEN [rejected |-> TRUE, result |-> NoResult, ran |-> {<< owner, 1, "root" >>}]
    ELSE IF root_error.threw
    THEN [rejected |-> TRUE, result |-> NoResult,
          ran |-> {<< owner, 1, "root" >>, << owner, 2, "root" >>}]
    ELSE [rejected |-> FALSE,
          result |-> get_navigation_result_from_branch(
                        owner, url, NoParams,
                        Merge(loaded_stuff(root_layout.node), loaded_stuff(root_error.node)),
                        FALSE, << root_layout.node, root_error.node >>, status, error, TRUE),
          ran |-> {<< owner, 1, "root" >>, << owner, 2, "root" >>}]

load_root_error_page(owner, status, error, url) ==
    root_error_page(owner, status, error, url, load_root_layout(owner, url),
                    load_node(<< owner, 2, "root" >>, default_error, url, NoParams,
                              loaded_stuff(load_root_layout(owner, url).node), FALSE))

\* the next position >= i of `a` that holds a loader (the loop skips empty slots)
RECURSIVE next_slot(_, _)
next_slot(a, i) ==
    IF i > Len(a) THEN i
    ELSE IF a[i] # "none" THEN i
    ELSE next_slot(a, i + 1)

\* `changed` of load_route, computed against `current` when the call starts
changed_since(id, params) ==
    [url |-> id # path_search(current.url),
     params |-> { k \in DOMAIN params :
                    (IF k \in DOMAIN current.params THEN current.params[k]
                     ELSE "undefined") # params[k] },
     session |-> session_id # current.session_id]

\* changed_since_last_render without the test of the params the node read
changed_but_for_params(changed, module, previous, stuff_changed) ==
    \/ previous.module = "none"
    \/ module # previous.module
    \/ (changed.url /\ previous.uses.url)
    \/ (changed.session /\ previous.uses.session)
    \/ (\E dep \in previous.uses.dependencies : dep \in invalidated)
    \/ (stuff_changed /\ previous.uses.stuff)

\* changed_since_last_render if new stuff above a node were to reload it whether or
\* not the node read stuff
changed_with_any_stuff(changed, module, previous, stuff_changed) ==
    \/ previous.module = "none"
    \/ module # previous.module
    \/ (changed.url /\ previous.uses.url)
    \/ (\E param \in changed.params : param \in previous.uses.params)
    \/ (changed.session /\ previous.uses.session)
    \/ (\E dep \in previous.uses.dependencies : dep \in invalidated)
    \/ stuff_changed

changed_since_last_render(changed, module, previous, stuff_changed) ==
    \/ previous.module = "none"
    \/ module # previous.module
    \/ (changed.url /\ previous.uses.url)
    \/ (\E param \in changed.params : param \in previous.uses.params)
    \/ (changed.session /\ previous.uses.session)
    \/ (\E dep \in previous.uses.dependencies : dep \in invalidated)
    \/ (stuff_changed /\ previous.uses.stuff)

NoLoad == [id |-> NoId, url |-> NoUrl, params |-> NoParams, route |-> 0,
           no_cache |-> FALSE, pc |-> "none", i |-> 0, branch |-> << >>, status |-> 200,
           stuff |-> NoStuff, stuff_is_root |-> TRUE, stuff_changed |-> FALSE,
           changed |-> [url |-> FALSE, params |-> {}, session |-> FALSE],
           result |-> NoResult, put |-> FALSE, ran |-> {}, reused |-> {},
           at_root |-> FALSE, began |-> 0, over |-> 0, hit |-> FALSE,
           prefetched |-> FALSE]

\* load_route after its loop: get_navigation_result_from_branch on the branch
assemble(ld, result) ==
    [ld EXCEPT !.pc = "done", !.result = result, !.put = cache_maxage(result) > 0]

finish_route(l, ld, status, error) ==
    assemble(ld, get_navigation_result_from_branch(l, ld.url, ld.params, ld.stuff,
                     ld.stuff_is_root, ld.branch, status, error, FALSE))

\* load_route's `return { redirect, props: {}, state: current }`
redirect_route(l, ld, redirect) ==
    [ld EXCEPT !.pc = "done",
               !.result = [NoResult EXCEPT !.rid = l, !.redirect = redirect,
                                           !.state = current]]

\* the error walk that tries no boundary
walk_to_root(l, ld, t, status, error, ran) ==
    [kind |-> "root", branch |-> ld.branch, stuff |-> ld.stuff,
     stuff_is_root |-> ld.stuff_is_root, ran |-> ran]

\* the error walk: boundaries tried from position t down to 1.  `walk` is what the
\* `while (i--)` loop does from t on, `try_boundary` what it does with the node that
\* load_node returned for b[t], the branch being cut at j.
RECURSIVE walk(_, _, _, _, _, _)
\* try_boundary if a boundary whose loader returns an error were to render all the same
try_boundary_unless_thrown(l, ld, t, j, status, error, ran, error_loaded) ==
    IF error_loaded.threw
    THEN walk(l, ld, t - 1, status, error, ran)
    ELSE [kind |-> "recovered",
          branch |-> SubSeq(ld.branch, 1, j) \o << error_loaded.node >>,
          stuff |-> Merge(ld.stuff, loaded_stuff(error_loaded.node)),
          stuff_is_root |-> ld.stuff_is_root /\ ~error_loaded.node.loaded.has_stuff,
          ran |-> ran]

try_boundary(l, ld, t, j, status, error, ran, error_loaded) ==
    IF error_loaded.threw \/ error_loaded.node.loaded.kind = "error"
    THEN walk(l, ld, t - 1, status, error, ran)
    ELSE [kind |-> "recovered",
          branch |-> SubSeq(ld.branch, 1, j) \o << error_loaded.node >>,
          stuff |-> Merge(ld.stuff, loaded_stuff(error_loaded.node)),
          stuff_is_root |-> ld.stuff_is_root /\ ~error_loaded.node.loaded.has_stuff,
          ran |-> ran]

walk(l, ld, t, status, error, ran) ==
    IF t = 0 THEN [kind |-> "root", branch |-> ld.branch, stuff |-> ld.stuff,
                   stuff_is_root |-> ld.stuff_is_root, ran |-> ran]
    ELSE IF t > Len(routes[ld.route].b) \/ routes[ld.route].b[t] = "none"
    THEN walk(l, ld, t - 1, status, error, ran)
    ELSE IF Len(ld.branch) = 0
    THEN [kind |-> "diverged", branch |-> ld.branch, stuff |-> ld.stuff,
          stuff_is_root |-> ld.stuff_is_root, ran |-> ran]
    ELSE try_boundary(l, ld, t, IF t <= Len(ld.branch) THEN t ELSE Len(ld.branch),
                      status, error, ran \cup {<< l, t, "b" >>},
                      load_node(<< l, t, "b" >>, routes[ld.route].b[t], ld.url, ld.params,
                                ld.branch[IF t <= Len(ld.branch) THEN t
                                          ELSE Len(ld.branch)].stuff,
                                FALSE))

\* load_route once no boundary rendered the error: load_root_error_page
root_error_route(ld, ran, page) ==
    IF page.rejected
    THEN [ld EXCEPT !.pc = "rejected", !.ran = ran \cup page.ran, !.at_root = TRUE]
    ELSE [ld EXCEPT !.pc = "done", !.result = page.result,
                    !.put = cache_maxage(page.result) > 0,
                    !.ran = ran \cup page.ran, !.at_root = TRUE]

\* load_route once the walk w is over
after_walk(l, ld, status, error, w) ==
    CASE w.kind = "diverged" -> [ld EXCEPT !.pc = "diverged", !.ran = w.ran]
      [] w.kind = "recovered" ->
            finish_route(l, [ld EXCEPT !.branch = w.branch, !.stuff = w.stuff,
                                       !.stuff_is_root = w.stuff_is_root, !.ran = w.ran],
                         status, error)
      [] OTHER ->
            root_error_route(ld, w.ran, load_root_error_page(l, status, error, ld.url))

\* load_route from an error that no node absorbed yet: the walk, then the root error page
recover_route(l, ld, i, status, error) ==
    after_walk(l, ld, status, error, walk(l, ld, i - 1, status, error, ld.ran))

\* What position ld.i of load_route's loop yields, given `changed`
\* (changed_since_last_render) and `loaded` (what load_node returns when it is called):
\* the node to push, or the redirect or error that ends the loop.
load_slot(l, ld, previous, changed, loaded) ==
    LET is_shadow_page == routes[ld.route].has_shadow /\ ld.i = Len(routes[ld.route].a)
        res == cfg.shadow
    IN  IF ~changed
        THEN [fate |-> "node", called |-> FALSE, node |-> previous, status |-> ld.status,
              error |-> "none", redirect |-> NoUrl]
        ELSE IF is_shadow_page /\ res.ok /\ res.location # "none"
        THEN [fate |-> "redirect", called |-> FALSE, node |-> NoNode, status |-> 302,
              error |-> "none", redirect |-> Plain(res.location)]
        ELSE IF is_shadow_page /\ res.ok /\ res.status # 204 /\ res.body = "invalid"
        THEN [fate |-> "error", called |-> FALSE, node |-> NoNode, status |-> 500,
              error |-> "thrown by res.json", redirect |-> NoUrl]
        ELSE IF is_shadow_page /\ ~res.ok /\ res.body # "null"
        THEN [fate |-> "error", called |-> FALSE, node |-> NoNode, status |-> res.status,
              error |-> IF res.body = "invalid" THEN "Failed to load data"
                        ELSE "shadow error body",
              redirect |-> NoUrl]
        ELSE IF loaded.threw
        THEN [fate |-> "error", called |-> TRUE, node |-> NoNode, status |-> 500,
              error |-> loaded.error, redirect |-> NoUrl]
        ELSE IF loaded.node.loaded.kind = "error"
        THEN [fate |-> "error", called |-> TRUE, node |-> NoNode,
              status |-> loaded.node.loaded.status, error |-> loaded.node.loaded.error,
              redirect |-> NoUrl]
        ELSE IF loaded.node.loaded.kind = "redirect"
        THEN [fate |-> "redirect", called |-> TRUE, node |-> NoNode, status |-> 302,
              error |-> "none", redirect |-> loaded.node.loaded.redirect]
        ELSE [fate |-> "node", called |-> TRUE,
              node |-> IF is_shadow_page
                       THEN [loaded.node EXCEPT
                               !.uses.url = TRUE,
                               !.props = IF res.ok /\ res.status # 204
                                         THEN (IF res.body = "null" THEN "null"
                                               ELSE "body")
                                         ELSE "empty"]
                       ELSE loaded.node,
              status |-> IF is_shadow_page /\ ~res.ok THEN res.status ELSE ld.status,
              error |-> "none", redirect |-> NoUrl]

\* the load record with the loaders that ran and the positions reused so far
ran_slot(l, ld, slot) ==
    [ld EXCEPT !.ran = IF slot.called THEN @ \cup {<< l, ld.i, "a" >>} ELSE @,
               !.reused = IF slot.called \/ slot.fate # "node" THEN @ ELSE @ \cup {ld.i}]

\* branch.push(node) with the stuff bookkeeping, then the loop's next position
push_slot(l, ld, slot) ==
    [ld EXCEPT !.branch = Append(@, slot.node),
               !.stuff = Merge(@, loaded_stuff(slot.node)),
               !.stuff_is_root = @ /\ ~slot.node.loaded.has_stuff,
               !.stuff_changed = @ \/ (slot.called /\ slot.node.loaded.has_stuff),
               !.status = slot.status,
               !.i = next_slot(routes[ld.route].a, ld.i + 1)]

\* the loop goes on, or load_route returns the assembled result
continue_route(l, ld) ==
    IF ld.i > Len(routes[ld.route].a) THEN finish_route(l, ld, ld.status, "none") ELSE ld

\* load_route with the outcome of position ld.i
settle_slot(l, ld, slot) ==
    CASE slot.fate = "redirect" -> redirect_route(l, ran_slot(l, ld, slot), slot.redirect)
      [] slot.fate = "error" ->
            recover_route(l, ran_slot(l, ld, slot), ld.i, slot.status, slot.error)
      [] OTHER -> continue_route(l, push_slot(l, ran_slot(l, ld, slot), slot))

\* current.branch[i]
previous_node(i) == IF i <= Len(current.branch) THEN current.branch[i] ELSE NoNode

\* `props` as load_route hands it to load_node is {} or the parsed body of the
\* shadow response, which is falsy when that body is null
has_props(ld) ==
    ~(/\ routes[ld.route].has_shadow
      /\ ld.i = Len(routes[ld.route].a)
      /\ cfg.shadow.ok
      /\ cfg.shadow.status # 204
      /\ cfg.shadow.body = "null")

\* one pass of load_route's loop, at position ld.i, up to the next await
load_iteration(l, ld) ==
    settle_slot(l, ld,
        load_slot(l, ld, previous_node(ld.i),
                  changed_since_last_render(ld.changed, routes[ld.route].a[ld.i],
                                            previous_node(ld.i), ld.stuff_changed),
                  load_node(<< l, ld.i, "a" >>, routes[ld.route].a[ld.i], ld.url,
                            ld.params, ld.stuff, has_props(ld))))

\* load_route past its load_cache test, up to its first await: the cached result unless
\* no_cache, else the loop begins.  The promise the caller gets is an index of `loads`.
load_started(intent, no_cache) ==
    LET l == Len(loads) + 1
        a == routes[intent.route].a
        ld0 == [NoLoad EXCEPT !.id = intent.id, !.url = intent.url,
                              !.params = intent.params, !.route = intent.route,
                              !.no_cache = no_cache, !.began = session_id,
                              !.over = rendered.rid]
        ld1 == [ld0 EXCEPT !.pc = "loop", !.i = next_slot(a, 1),
                           !.changed = changed_since(intent.id, intent.params)]
    IN  IF ~no_cache /\ intent.id \in DOMAIN cache
        THEN [promise |-> l,
              loads |-> Append(loads, [ld0 EXCEPT !.pc = "done", !.hit = TRUE,
                                                  !.result = cache[intent.id]])]
        ELSE [promise |-> l,
              loads |-> Append(loads, continue_route(l, ld1))]

\* load_route without its load_cache test
load_route_without_slot(intent, no_cache) == load_started(intent, no_cache)

\* load_route up to its first await
load_route(intent, no_cache) ==
    IF load_cache.id = intent.id /\ load_cache.promise # 0
    THEN [promise |-> load_cache.promise, loads |-> loads]
    ELSE load_started(intent, no_cache)

\* the cache and the armed clear() closures once load l has returned
cache_after(ld) == IF ld.pc = "done" /\ ld.put THEN cache_set(ld.result) ELSE cache

timers_after(ld) == IF ld.pc = "done" /\ ld.put THEN arm_clear(ld.result) ELSE timers

-----------------------------------------------------------------------------
(* update(), navigate(), goto()                                            *)

location == hist.entries[hist.pos].url

NoUpdate == [url |-> NoUrl, redirect_chain |-> << >>, no_cache |-> FALSE,
             has_opts |-> FALSE, scroll |-> -1, has_details |-> FALSE,
             replaceState |-> FALSE, from |-> NoUrl, kind |-> "none",
             pc |-> "none", load |-> 0, result |-> NoResult,
             superseded_at_commit |-> FALSE, replay |-> FALSE, followed |-> FALSE,
             disabled |-> FALSE, autoscroll |-> TRUE, loc |-> NoUrl,
             at_call |-> [now |-> 0, calls |-> NoCalls, loads |-> 0, slot |-> FALSE,
                          cached |-> FALSE, prefetched |-> FALSE]]

Settled(l) == loads[l].pc \in {"done", "rejected"}

\* nothing runs once location.href was assigned, while a loop of load_route spins,
\* or before the microtask queued by invalidate() has run
Running == ~unloaded /\ \A l \in DOMAIN loads : loads[l].pc # "diverged"

\* as if the continuation of `await tick()` waited for a task of its own
InFlush_never == FALSE

\* an update is between root.$set and the continuation of its `await tick()`: the
\* flush of the render and that continuation are microtasks of the task that committed
InFlush == \E u \in DOMAIN upd : upd[u].pc = "tick"

\* a new task, or a continuation that waited for the network, a timer or the user,
\* can run: no microtask is left from the task before
BetweenTasks == Running /\ invalidating # -1 /\ ~InFlush

\* what a call of load_route finds: the time, the invalidate() calls made, the loads
\* begun, whether load_cache holds the id, whether the cache holds it, whether the id
\* was prefetched
called_with(intent) ==
    [now |-> now, calls |-> invalidate_calls, loads |-> Len(loads),
     slot |-> load_cache.id = intent.id /\ load_cache.promise # 0,
     cached |-> intent.id \in DOMAIN cache,
     prefetched |-> \E l \in DOMAIN loads : loads[l].prefetched /\ loads[l].id = intent.id]

\* the test of update() with the pathname left out
same_origin(url, loc) == url.origin = loc.origin

\* url.origin === location.origin && url.pathname === location.pathname
same_origin_and_pathname(url, loc) ==
    url.origin = loc.origin /\ pathname(url) = pathname(loc)

\* update() from its call to its first await: what it leaves in token, upd, loads,
\* cache, timers and whether it assigned location.href.  `before` is `upd` as the
\* caller leaves it, `loc` the location at the call.
update_start(before, call, loc) ==
    LET u == Len(before) + 1
        intent == get_navigation_intent(call.url, loc)
        lr == load_route(intent, call.no_cache)
        fresh == lr.promise > Len(loads)
        same_page == same_origin_and_pathname(call.url, loc)
    IN  IF intent.route # 0
        THEN [ok |-> Len(before) < cfg.max_updates /\ Len(loads) < cfg.max_loads,
              token |-> u,
              loads |-> lr.loads,
              cache |-> IF fresh THEN cache_after(Last(lr.loads)) ELSE cache,
              timers |-> IF fresh THEN timers_after(Last(lr.loads)) ELSE timers,
              upd |-> Append(before, [call EXCEPT !.pc = "load", !.load = lr.promise,
                                                   !.at_call = called_with(intent)]),
              unloaded |-> unloaded]
        ELSE [ok |-> Len(before) < cfg.max_updates,
              token |-> u,
              loads |-> loads,
              cache |-> cache,
              timers |-> timers,
              upd |-> Append(before, [call EXCEPT !.pc = IF same_page THEN "root404"
                                                          ELSE "native",
                                                   !.loc = loc]),
              unloaded |-> ~same_page]

update_call(before, call, loc) ==
    LET n == update_start(before, call, loc) IN
    /\ n.ok
    /\ token' = n.token
    /\ loads' = n.loads
    /\ cache' = n.cache
    /\ timers' = n.timers
    /\ upd' = n.upd
    /\ unloaded' = n.unloaded

\* navigate() once no before_navigate callback cancelled it.  It writes
\* scroll_positions and stores.navigating and calls update().
navigate_call(before, call, loc) ==
    LET pn == normalize_path(pathname(call.url), cfg.trailing_slash)
        normalized == [call.url EXCEPT !.slash = pn.slash]
    IN  /\ scroll_positions' =
              [k \in DOMAIN scroll_positions \cup {current_history_index} |->
                  IF k = current_history_index THEN scrollY ELSE scroll_positions[k]]
        /\ navigating' = IF started THEN [from |-> current.url, to |-> normalized]
                         ELSE navigating
        /\ update_call(before, [call EXCEPT !.url = normalized, !.from = current.url,
                                            !.has_opts = TRUE], loc)

\* navigate(): the before_navigate callbacks run first; when one of them cancelled,
\* blocked() is all that happens (what blocked() does is the caller's)
navigate_scroll_first(before, call, loc, block) ==
    IF block
    THEN /\ cancelled' = cancelled + 1
         /\ upd' = before
         /\ scroll_positions' =
               [k \in DOMAIN scroll_positions \cup {current_history_index} |->
                   IF k = current_history_index THEN scrollY ELSE scroll_positions[k]]
         /\ UNCHANGED << token, loads, cache, timers, unloaded, navigating >>
    ELSE /\ cancelled' = cancelled
         /\ navigate_call(before, call, loc)

navigate(before, call, loc, block) ==
    IF block
    THEN /\ cancelled' = cancelled + 1
         /\ upd' = before
         /\ UNCHANGED << token, loads, cache, timers, unloaded, scroll_positions,
                         navigating >>
    ELSE /\ cancelled' = cancelled
         /\ navigate_call(before, call, loc)

\* whether the callbacks registered with before_navigate may cancel this call
may_block == { block \in cfg.can_block : block => cancelled < cfg.max_cancels }

NotNavigating == [from |-> NoUrl, to |-> NoUrl]

\* `change` when every navigation counts as a new entry
history_change_always(replaceState) == 1

\* const change = details.replaceState ? 0 : 1
history_change(replaceState) == IF replaceState THEN 0 ELSE 1

\* history_after with the entry written before the index key is attached
history_after_unstamped(h, replaceState, url, index) ==
    IF replaceState
    THEN [h EXCEPT !.entries[h.pos] = [url |-> url, index |-> h.entries[h.pos].index]]
    ELSE [h EXCEPT !.entries = Append(SubSeq(h.entries, 1, h.pos),
                                      [url |-> url, index |-> h.entries[h.pos].index]),
                   !.pos = h.pos + 1]

\* history.replaceState / history.pushState of update(), the state carrying INDEX_KEY
history_after(h, replaceState, url, index) ==
    IF replaceState
    THEN [h EXCEPT !.entries[h.pos] = [url |-> url, index |-> index]]
    ELSE [h EXCEPT !.entries = Append(SubSeq(h.entries, 1, h.pos),
                                      [url |-> url, index |-> index]),
                   !.pos = h.pos + 1]

\* update() from `updating = true` to its `await tick()`
commit(before, u, result) ==
    LET me == before[u]
        index == current_history_index + history_change(me.replaceState)
    IN  /\ updating' = TRUE
        /\ current_history_index' = IF me.has_details THEN index
                                    ELSE current_history_index
        /\ hist' = IF me.has_details
                   THEN history_after(hist, me.replaceState, me.url, index)
                   ELSE hist
        /\ current' = result.state
        /\ rendered' = [rid |-> result.rid,
                        url |-> IF result.has_page THEN me.url ELSE rendered.url]
        /\ started' = TRUE
        /\ upd' = [before EXCEPT ![u].pc = "tick", ![u].result = result,
                                 ![u].superseded_at_commit = (token # u)]

\* redirect_loop with the bound of the chain tested after the pathname is appended
redirect_loop_ten(redirect_chain, url) ==
    Len(redirect_chain) + 1 > MaxRedirects
    \/ \E k \in DOMAIN redirect_chain : redirect_chain[k] = pathname(url)

\* redirect_loop without the test for a pathname seen before
redirect_loop_length_only(redirect_chain, url) ==
    Len(redirect_chain) > MaxRedirects

\* the test that sends update() to the root error page instead of following a redirect
redirect_loop(redirect_chain, url) ==
    Len(redirect_chain) > MaxRedirects
    \/ \E k \in DOMAIN redirect_chain : redirect_chain[k] = pathname(url)

\* the goto of a redirect with the chain handed on as it is
redirect_goto_same_chain(me, redirect) ==
    [NoUpdate EXCEPT !.url = redirect, !.redirect_chain = me.redirect_chain,
                     !.has_details = TRUE, !.replaceState = FALSE, !.kind = "goto"]

\* goto(url, {}, redirect_chain) as update() calls it for a redirect
redirect_goto(me, redirect) ==
    [NoUpdate EXCEPT !.url = redirect,
                     !.redirect_chain = Append(me.redirect_chain, pathname(me.url)),
                     !.has_details = TRUE, !.replaceState = FALSE, !.kind = "goto"]

\* update() from `if (token !== current_token)` to its next await or return
proceed(u, result) ==
    LET me == upd[u] IN
    IF token # u
    THEN /\ upd' = [upd EXCEPT ![u].pc = "aborted"]
         /\ UNCHANGED << invalidated, token, loads, cache, timers, unloaded,
                         scroll_positions, navigating, updating, current_history_index,
                         hist, current, rendered, started, cancelled >>
    ELSE /\ invalidated' = {}
         /\ IF result.redirect # NoUrl
            THEN IF redirect_loop(me.redirect_chain, me.url)
                 THEN /\ upd' = [upd EXCEPT ![u].pc = "loop500"]
                      /\ UNCHANGED << token, loads, cache, timers, unloaded,
                                      scroll_positions, navigating, updating,
                                      current_history_index, hist, current, rendered,
                                      started, cancelled >>
                 ELSE \E block \in may_block :
                        /\ navigate([upd EXCEPT ![u].pc = "redirected",
                                                ![u].followed = ~block],
                                    redirect_goto(me, result.redirect), location, block)
                        /\ UNCHANGED << updating, current_history_index, hist,
                                        current, rendered, started >>
            ELSE IF result.has_page /\ result.status >= 400
                 THEN /\ upd' = [upd EXCEPT ![u].pc = "check", ![u].result = result]
                      /\ UNCHANGED << token, loads, cache, timers, unloaded,
                                      scroll_positions, navigating, updating,
                                      current_history_index, hist, current, rendered,
                                      started, cancelled >>
                 ELSE /\ commit(upd, u, result)
                      /\ UNCHANGED << token, loads, cache, timers, unloaded,
                                      scroll_positions, navigating, cancelled >>

-----------------------------------------------------------------------------
(* The steps of the running calls *)

\* load_route resumes after an await and runs to its next await or to its return
LoadStep(l) ==
    /\ BetweenTasks
    /\ loads[l].pc = "loop"
    /\ \E ld \in {load_iteration(l, loads[l])} :
         /\ loads' = [loads EXCEPT ![l] = ld]
         /\ cache' = cache_after(ld)
         /\ timers' = timers_after(ld)
    /\ UNCHANGED << cfg, hash_navigating, cancelled, invalidate_calls, invalidated,
                    load_cache, current, started, autoscroll, updating, session_id,
                    invalidating, session, current_history_index, token,
                    scroll_positions, scrollY, hist, unloaded, navigating, rendered,
                    upd, now >>

\* update() resumes from `await load_route(intent, no_cache)`
UpdateLoaded(u) ==
    /\ BetweenTasks
    /\ upd[u].pc = "load"
    /\ Settled(upd[u].load)
    /\ IF loads[upd[u].load].pc = "rejected"
       THEN /\ upd' = [upd EXCEPT ![u].pc = "threw"]
            /\ UNCHANGED << invalidated, token, loads, cache, timers, unloaded,
                            scroll_positions, navigating, updating, current_history_index,
                            hist, current, rendered, started, cancelled >>
       ELSE proceed(u, loads[upd[u].load].result)
    /\ UNCHANGED << cfg, hash_navigating, invalidate_calls, load_cache, autoscroll,
                    session_id, invalidating, session, scrollY, now >>

\* `await load_root_error_page(...)` of update(): the 404 of an unmatched URL of this
\* page, or the 500 of a redirect loop
UpdateRootError(u) ==
    /\ BetweenTasks
    /\ upd[u].pc \in {"root404", "loop500"}
    /\ \E page \in {load_root_error_page(100 + u,
                                           IF upd[u].pc = "root404" THEN 404 ELSE 500,
                                           IF upd[u].pc = "root404" THEN "Not found"
                                           ELSE "Redirect loop",
                                           upd[u].url)} :
       \E put \in {~page.rejected /\ cache_maxage(page.result) > 0} :
          /\ upd' = [upd EXCEPT ![u].pc = IF page.rejected THEN "threw"
                                          ELSE IF @ = "root404" THEN "got404"
                                          ELSE "got500",
                                ![u].result = page.result]
          /\ cache' = IF put THEN cache_set(page.result) ELSE cache
          /\ timers' = IF put THEN arm_clear(page.result) ELSE timers
    /\ UNCHANGED << cfg, hash_navigating, cancelled, invalidate_calls, invalidated,
                    load_cache, current, started, autoscroll, updating, session_id,
                    invalidating, session, current_history_index, token,
                    scroll_positions, scrollY, hist, unloaded, navigating, rendered,
                    loads, now >>

\* update() resumes with the synthetic 404
UpdateNotFound(u) ==
    /\ BetweenTasks
    /\ upd[u].pc = "got404"
    /\ proceed(u, upd[u].result)
    /\ UNCHANGED << cfg, hash_navigating, invalidate_calls, load_cache, autoscroll,
                    session_id, invalidating, session, scrollY, now >>

\* update() resumes with the redirect-loop page and commits it
UpdateLoopPage(u) ==
    /\ BetweenTasks
    /\ upd[u].pc = "got500"
    /\ commit(upd, u, upd[u].result)
    /\ UNCHANGED << cfg, hash_navigating, cancelled, invalidate_calls, cache, timers,
                    invalidated, load_cache, autoscroll, session_id, invalidating,
                    session, token, scroll_positions, scrollY, unloaded, navigating,
                    loads, now >>

\* update() resumes from `await stores.updated.check()`
UpdateChecked(u) ==
    /\ BetweenTasks
    /\ upd[u].pc = "check"
    /\ \E updated \in cfg.updated :
         IF updated
         THEN /\ unloaded' = TRUE
              /\ upd' = [upd EXCEPT ![u].pc = "native"]
              /\ UNCHANGED << updating, current_history_index, hist, current, rendered,
                              started >>
         ELSE /\ commit(upd, u, upd[u].result)
              /\ unloaded' = unloaded
    /\ UNCHANGED << cfg, hash_navigating, cancelled, invalidate_calls, cache, timers,
                    invalidated, load_cache, autoscroll, session_id, invalidating,
                    session, token, scroll_positions, scrollY, navigating, loads, now >>

\* the scroll of update() as if a fragment were never looked up
scrolled_to_recorded_or_top(me) == IF me.scroll >= 0 THEN me.scroll ELSE 0

\* where update() scrolls when autoscroll is set: the offset it was given, else the
\* element the fragment of the URL addresses, else the origin
scrolled_to(me) ==
    IF me.scroll >= 0 THEN me.scroll
    ELSE IF me.url.hash \in DOMAIN cfg.anchors THEN cfg.anchors[me.url.hash]
    ELSE 0

\* update() resumes from `await tick()` and runs to its end; the after_navigate
\* callbacks that navigate() passed run after autoscroll was reset and before
\* updating is, and one of them may call disable_scroll_handling
UpdateTick(u) ==
    /\ Running
    /\ upd[u].pc = "tick"
    /\ scrollY' = IF upd[u].has_opts /\ autoscroll THEN scrolled_to(upd[u]) ELSE scrollY
    /\ load_cache' = [id |-> NoId, promise |-> 0]
    /\ navigating' = IF upd[u].has_opts THEN NotNavigating ELSE navigating
    /\ updating' = FALSE
    /\ \E disable \in cfg.can_disable :
          /\ autoscroll' = ~(upd[u].has_opts /\ disable)
          /\ upd' = [upd EXCEPT ![u].pc = "done", ![u].autoscroll = autoscroll,
                                ![u].disabled = @ \/ (upd[u].has_opts /\ disable)]
    /\ UNCHANGED << cfg, hash_navigating, cancelled, invalidate_calls, cache, timers,
                    invalidated, current, started, session_id, invalidating, session,
                    current_history_index, token, scroll_positions, hist, unloaded,
                    rendered, loads, now >>

-----------------------------------------------------------------------------
(* What the page, the user and the clock do *)

\* _hydrate's loop once load_node returned `loaded` for a node
hydrate_node(acc, loaded, props) ==
    IF loaded.threw
    THEN [acc EXCEPT !.threw = TRUE, !.error = loaded.error]
    ELSE [acc EXCEPT
            !.branch = Append(@, IF props THEN [loaded.node EXCEPT !.uses.url = TRUE,
                                                                   !.props = "body"]
                                 ELSE loaded.node),
            !.failed = @ \/ loaded.node.loaded.kind = "error",
            !.status = IF loaded.node.loaded.kind = "error"
                       THEN loaded.node.loaded.status ELSE @,
            !.error = IF loaded.node.loaded.kind = "error"
                      THEN loaded.node.loaded.error ELSE @,
            !.stuff = IF loaded.node.loaded.kind # "error"
                      THEN Merge(@, loaded_stuff(loaded.node)) ELSE @]

\* _hydrate's loop over the server-rendered nodes
RECURSIVE hydrate_nodes(_, _, _, _, _, _)
hydrate_nodes(nodes, k, url, params, shadow, acc) ==
    IF k > Len(nodes) \/ acc.threw THEN acc
    ELSE hydrate_nodes(nodes, k + 1, url, params, shadow,
            hydrate_node(acc,
                         load_node(<< 99, k, "a" >>, nodes[k], url, params, acc.stuff,
                                   shadow /\ k = Len(nodes)),
                         shadow /\ k = Len(nodes)))

\* the loaders of a route, its empty slots left out
RECURSIVE present(_, _)
present(a, k) ==
    IF k > Len(a) THEN << >>
    ELSE (IF a[k] = "none" THEN << >> ELSE << a[k] >>) \o present(a, k + 1)

\* the result _hydrate initializes the app with, or rejected: a failure while
\* hydrating a page the server rendered with an error is thrown again
hydrate_result(url, intent, got, page) ==
    IF got.threw \/ got.failed
    THEN IF got.server_error THEN [page EXCEPT !.rejected = TRUE] ELSE page
    ELSE [rejected |-> FALSE,
          result |-> get_navigation_result_from_branch(99, url, intent.params, got.stuff,
                         FALSE, got.branch, IF got.server_error THEN got.status ELSE 200,
                         IF got.server_error THEN got.error ELSE "none", FALSE),
          ran |-> {}]

hydrated(url, intent, got) ==
    hydrate_result(url, intent, got,
                   load_root_error_page(99, IF got.threw THEN 500 ELSE got.status,
                                        got.error, url))

\* what the server rendered for a URL: the nodes of its route, or the root layout and
\* the default error component with status 404 when no route matches
server_rendered(intent) ==
    IF intent.route # 0
    THEN [nodes |-> present(routes[intent.route].a, 1),
          shadow |-> routes[intent.route].has_shadow, status |-> 200, error |-> "none"]
    ELSE [nodes |-> << default_layout, default_error >>,
          shadow |-> FALSE, status |-> 404, error |-> "Not found"]

\* _hydrate of the page the server rendered, then _start_router; a component may call
\* disable_scroll_handling while the page mounts, when started is still false
Hydrate ==
    /\ ~started
    /\ Running
    /\ Len(upd) = 0
    /\ \E intent \in {get_navigation_intent(location, location)} :
       \E page \in {hydrated(location, intent,
                        hydrate_nodes(server_rendered(intent).nodes, 1, location,
                                      intent.params, server_rendered(intent).shadow,
                                      [threw |-> FALSE, failed |-> FALSE,
                                       branch |-> << >>, stuff |-> NoStuff,
                                       server_error |-> intent.route = 0,
                                       status |-> server_rendered(intent).status,
                                       error |-> server_rendered(intent).error]))} :
          /\ ~page.rejected
          /\ page.result.redirect = NoUrl
          /\ current' = page.result.state
          /\ rendered' = [rid |-> page.result.rid, url |-> location]
          /\ cache' = IF cache_maxage(page.result) > 0 THEN cache_set(page.result)
                      ELSE cache
          /\ timers' = IF cache_maxage(page.result) > 0 THEN arm_clear(page.result)
                       ELSE timers
    /\ \E disable \in cfg.can_disable : autoscroll' = (autoscroll /\ ~disable)
    /\ started' = TRUE
    /\ UNCHANGED << cfg, hash_navigating, cancelled, invalidate_calls, invalidated,
                    load_cache, updating, session_id, invalidating, session,
                    current_history_index, token, scroll_positions, scrollY, hist,
                    unloaded, navigating, upd, loads, now >>

\* goto(href, opts) of the client, or a click on a link of the app
Goto(url, replaceState) ==
    /\ started
    /\ Running
    /\ Cardinality({ u \in DOMAIN upd : upd[u].kind = "goto" /\ upd[u].redirect_chain = << >> })
            < cfg.max_gotos
    /\ \E block \in may_block :
         navigate(upd,
                  [NoUpdate EXCEPT !.url = url, !.has_details = TRUE,
                                   !.replaceState = replaceState, !.kind = "goto",
                                   !.replay = replaceState /\ url = current.url],
                  location, block)
    /\ UNCHANGED << cfg, hash_navigating, invalidate_calls, invalidated, load_cache,
                    current, started, autoscroll, updating, session_id, invalidating,
                    session, current_history_index, scrollY, hist, rendered, now >>

\* prefetch(href)
Prefetch(url) ==
    /\ started
    /\ Running
    /\ Len(loads) < cfg.max_loads
    /\ LET intent == get_navigation_intent(url, location)
           lr == load_route(intent, FALSE)
           fresh == lr.promise > Len(loads)
       IN /\ intent.route # 0
          /\ loads' = [lr.loads EXCEPT ![lr.promise].prefetched = TRUE]
          /\ cache' = IF fresh THEN cache_after(Last(lr.loads)) ELSE cache
          /\ timers' = IF fresh THEN timers_after(Last(lr.loads)) ELSE timers
          /\ load_cache' = [id |-> intent.id, promise |-> lr.promise]
    /\ UNCHANGED << cfg, hash_navigating, cancelled, invalidate_calls, invalidated,
                    current, started, autoscroll, updating, session_id, invalidating,
                    session, current_history_index, token, scroll_positions, scrollY,
                    hist, unloaded, navigating, rendered, upd, now >>

\* invalidate(resource) with a URL: the predicate is pushed and, unless an
\* invalidation is under way, the update is queued as a microtask
Invalidate(href) ==
    /\ started
    /\ Running
    /\ href \notin invalidated
    /\ invalidate_calls[href] < MaxInvalidate
    /\ invalidate_calls' = [invalidate_calls EXCEPT ![href] = @ + 1]
    /\ invalidated' = invalidated \cup {href}
    /\ invalidating' = IF invalidating = 0 THEN -1 ELSE invalidating
    /\ UNCHANGED << cfg, hash_navigating, cancelled, cache, timers, load_cache, current,
                    started, autoscroll, updating, session_id, session,
                    current_history_index, token, scroll_positions, scrollY, hist,
                    unloaded, navigating, rendered, upd, loads, now >>

\* the microtask of invalidate(): update(new URL(location.href), [], true)
InvalidateRun ==
    /\ Running
    /\ ~InFlush
    /\ invalidating = -1
    /\ update_call(upd, [NoUpdate EXCEPT !.url = location, !.no_cache = TRUE,
                                         !.kind = "invalidate"], location)
    /\ invalidating' = Len(upd) + 1
    /\ UNCHANGED << cfg, hash_navigating, cancelled, invalidate_calls, invalidated,
                    load_cache, current, started, autoscroll, updating, session_id,
                    session, current_history_index, scroll_positions, scrollY, hist,
                    navigating, rendered, now >>

\* the update awaited by invalidate() returned: invalidating = null
InvalidateSettled ==
    /\ BetweenTasks
    /\ invalidating > 0
    /\ upd[invalidating].pc \in {"aborted", "redirected", "done"}
    /\ invalidating' = 0
    /\ UNCHANGED << cfg, hash_navigating, cancelled, invalidate_calls, cache, timers,
                    invalidated, load_cache, current, started, autoscroll, updating,
                    session_id, session, current_history_index, token, scroll_positions,
                    scrollY, hist, unloaded, navigating, rendered, upd, loads, now >>

\* the loads after update() was called by the session subscriber: load_route, if it
\* began its loop, computed `changed` with the session_id already incremented
begun_in_session(after, sid) ==
    IF Len(after) > Len(loads) /\ after[Len(after)].pc = "loop"
    THEN [after EXCEPT ![Len(after)].began = sid,
                       ![Len(after)].changed.session = (sid # current.session_id)]
    ELSE after

\* stores.session.set(value): the subscriber of create_client runs, then the clear()
\* of every cached result
SessionSet ==
    /\ started
    /\ Running
    /\ session < MaxSession
    /\ session' = session + 1
    /\ session_id' = session_id + 1
    /\ LET n == update_start(upd, [NoUpdate EXCEPT !.url = location, !.no_cache = TRUE,
                                                   !.kind = "session"], location)
       IN /\ n.ok
          /\ token' = n.token
          /\ loads' = begun_in_session(n.loads, session_id + 1)
          /\ upd' = n.upd
          /\ unloaded' = n.unloaded
          /\ cache' = cleared(n.cache, timers)
          /\ timers' = n.timers \ timers
    /\ UNCHANGED << cfg, hash_navigating, cancelled, invalidate_calls, invalidated,
                    load_cache, current, started, autoscroll, updating, invalidating,
                    current_history_index, scroll_positions, scrollY, hist, navigating,
                    rendered, now >>

\* a second passes; the timeouts that are due run their clear()
Tick ==
    /\ BetweenTasks
    /\ now < MaxTime
    /\ now' = now + 1
    /\ LET fired == { t \in timers : t.due <= now + 1 } IN
         /\ cache' = cleared(cache, fired)
         /\ timers' = timers \ fired
    /\ UNCHANGED << cfg, hash_navigating, cancelled, invalidate_calls, invalidated,
                    load_cache, current, started, autoscroll, updating, session_id,
                    invalidating, session, current_history_index, token,
                    scroll_positions, scrollY, hist, unloaded, navigating, rendered,
                    upd, loads >>

\* the history entry the browser moves to, and whether that fires hashchange: the
\* two URLs differ in their fragment only
traversed(h, k) ==
    [h EXCEPT !.pos = k,
              !.go = 0,
              !.hashchange = @ \/ (/\ base_of(h.entries[k].url) = base_of(h.entries[h.pos].url)
                                   /\ h.entries[k].url # h.entries[h.pos].url)]

\* const delta = current_history_index - event.state[INDEX_KEY]
popstate_delta(index) == current_history_index - index

\* the popstate listener, the browser being on entry k (h is the history then); an
\* entry made by a fragment navigation has no state (index 0)
popstate(h, k) ==
    LET index == h.entries[k].index
        url == h.entries[k].url
    IN  IF index = 0 \/ index = current_history_index
        THEN /\ hist' = h
             /\ UNCHANGED << current_history_index, token, loads, cache, timers, upd,
                             unloaded, scroll_positions, navigating, cancelled >>
        ELSE \E block \in may_block :
               /\ navigate(upd,
                           [NoUpdate EXCEPT !.url = url, !.kind = "popstate",
                                            !.scroll = IF index \in DOMAIN scroll_positions
                                                       THEN scroll_positions[index]
                                                       ELSE -1],
                           url, block)
               /\ current_history_index' = IF block THEN current_history_index ELSE index
               /\ hist' = IF block THEN [h EXCEPT !.go = popstate_delta(index)] ELSE h

\* the user goes back or forward to entry k of the session history: popstate
Popstate(k) ==
    /\ started
    /\ BetweenTasks
    /\ hist.go = 0
    /\ ~hist.hashchange
    /\ k \in DOMAIN hist.entries
    /\ k # hist.pos
    /\ popstate(traversed(hist, k), k)
    /\ UNCHANGED << cfg, hash_navigating, invalidate_calls, invalidated, load_cache,
                    current, started, autoscroll, updating, session_id, invalidating,
                    session, scrollY, rendered, now >>

\* the browser carries out history.go(delta) of a cancelled popstate; the move fires
\* popstate again
HistoryGo ==
    /\ BetweenTasks
    /\ hist.go # 0
    /\ IF hist.pos + hist.go \in DOMAIN hist.entries
       THEN popstate(traversed(hist, hist.pos + hist.go), hist.pos + hist.go)
       ELSE /\ hist' = [hist EXCEPT !.go = 0]
            /\ UNCHANGED << current_history_index, token, loads, cache, timers, upd,
                            unloaded, scroll_positions, navigating, cancelled >>
    /\ UNCHANGED << cfg, hash_navigating, invalidate_calls, invalidated, load_cache,
                    current, started, autoscroll, updating, session_id, invalidating,
                    session, scrollY, rendered, now >>

\* the test of the click listener with the fragment left out of it
differs_in_any_fragment(url, loc) == url.hash # ""

\* const [base, hash] = url.href.split('#');
\* hash !== undefined && base === location.href.split('#')[0]
differs_in_fragment_only(url, loc) == url.hash # "" /\ base_of(url) = base_of(loc)

\* what the browser does with a link to a fragment of the document when the click is
\* not prevented: a new entry without state, and hashchange, unless the URL is the same
fragment_navigation(h, url) ==
    IF url = h.entries[h.pos].url THEN h
    ELSE [h EXCEPT !.entries = Append(SubSeq(h.entries, 1, h.pos),
                                      [url |-> url, index |-> 0]),
                   !.pos = h.pos + 1,
                   !.hashchange = TRUE]

\* the click listener, on a link of the app without target, download or rel=external
Click(url) ==
    /\ started
    /\ BetweenTasks
    /\ hist.go = 0
    /\ ~hist.hashchange
    /\ Cardinality({ u \in DOMAIN upd : upd[u].kind = "click" }) < cfg.max_gotos
    /\ Len(hist.entries) < cfg.max_entries
    /\ current_history_index < BaseIndex + MaxIndex
    /\ IF differs_in_fragment_only(url, location)
       THEN /\ hash_navigating' = TRUE
            /\ scroll_positions' =
                  [k \in DOMAIN scroll_positions \cup {current_history_index} |->
                      IF k = current_history_index THEN scrollY ELSE scroll_positions[k]]
            /\ rendered' = [rendered EXCEPT !.url = url]
            /\ hist' = fragment_navigation(hist, url)
            /\ UNCHANGED << token, loads, cache, timers, upd, unloaded, navigating,
                            cancelled >>
       ELSE /\ \E block \in may_block :
                 navigate(upd,
                          [NoUpdate EXCEPT !.url = url, !.has_details = TRUE,
                                           !.replaceState = (url = location),
                                           !.kind = "click"],
                          location, block)
            /\ UNCHANGED << hash_navigating, rendered, hist >>
    /\ UNCHANGED << cfg, invalidate_calls, invalidated, load_cache, current, started,
                    autoscroll, updating, session_id, invalidating, session,
                    current_history_index, scrollY, now >>

\* a navigation to a fragment of the document that the click listener does not take:
\* the address bar, location.hash, a link with rel=external
NativeFragment(url) ==
    /\ started
    /\ BetweenTasks
    /\ hist.go = 0
    /\ ~hist.hashchange
    /\ Len(hist.entries) < cfg.max_entries
    /\ differs_in_fragment_only(url, location)
    /\ url # location
    /\ hist' = fragment_navigation(hist, url)
    /\ UNCHANGED << cfg, hash_navigating, cancelled, invalidate_calls, cache, timers,
                    invalidated, load_cache, current, started, autoscroll, updating,
                    session_id, invalidating, session, current_history_index, token,
                    scroll_positions, scrollY, unloaded, navigating, rendered, upd,
                    loads, now >>

\* the hashchange listener
Hashchange ==
    /\ BetweenTasks
    /\ hist.hashchange
    /\ hash_navigating' = FALSE
    /\ current_history_index' = IF hash_navigating THEN current_history_index + 1
                                ELSE current_history_index
    /\ hist' = IF hash_navigating
               THEN [hist EXCEPT !.hashchange = FALSE,
                                 !.entries[hist.pos].index = current_history_index + 1]
               ELSE [hist EXCEPT !.hashchange = FALSE]
    /\ UNCHANGED << cfg, cancelled, invalidate_calls, cache, timers, invalidated,
                    load_cache, current, started, autoscroll, updating, session_id,
                    invalidating, session, token, scroll_positions, scrollY, unloaded,
                    navigating, rendered, upd, loads, now >>

\* update u was called by navigate() and has not returned
InFlight(u) ==
    /\ upd[u].has_opts
    /\ upd[u].pc \in {"load", "root404", "got404", "loop500", "got500", "check", "tick"}

\* disable_scroll_handling(): the value it leaves in autoscroll
disable_scroll_handling == IF updating \/ ~started THEN FALSE ELSE autoscroll

\* a component calls disable_scroll_handling(); the navigations in flight are marked
DisableScrollHandling ==
    /\ started
    /\ Running
    /\ TRUE \in cfg.can_disable
    /\ autoscroll' = disable_scroll_handling
    /\ upd' = [u \in DOMAIN upd |->
                 IF InFlight(u) THEN [upd[u] EXCEPT !.disabled = TRUE] ELSE upd[u]]
    /\ UNCHANGED << cfg, hash_navigating, cancelled, invalidate_calls, cache, timers,
                    invalidated, load_cache, current, started, updating, session_id,
                    invalidating, session, current_history_index, token,
                    scroll_positions, scrollY, hist, unloaded, navigating, rendered,
                    loads, now >>

\* the user scrolls the page
UserScroll ==
    /\ started
    /\ BetweenTasks
    /\ scrollY' = IF scrollY = 1 THEN 0 ELSE 1
    /\ UNCHANGED << cfg, hash_navigating, cancelled, invalidate_calls, cache, timers,
                    invalidated, load_cache, current, started, autoscroll, updating,
                    session_id, invalidating, session, current_history_index, token,
                    scroll_positions, hist, unloaded, navigating, rendered, upd, loads,
                    now >>

-----------------------------------------------------------------------------
(* Applications the router is built on *)

Loader == [has_load |-> TRUE, reads_params |-> {}, reads_url |-> FALSE,
           reads_session |-> FALSE, reads_stuff |-> FALSE, deps |-> {}, ret |-> "value",
           target |-> "none", status |-> 500, has_stuff |-> FALSE, stuff |-> NoStuff,
           maxage |-> 0]

NoShadow == [ok |-> TRUE, status |-> 200, location |-> "none", body |-> "object"]

Api == Plain("/api")

\* two pages under one root layout; /a fetches /api and is cached, the layout reads
\* the session, /b may fail
TwoPages(ret_b, prefetch) ==
    [routes |-> << [exec |-> [p \in {"/a"} |-> NoParams], a |-> << "L0", "PA" >>,
                    b |-> << "E0" >>, has_shadow |-> FALSE],
                   [exec |-> [p \in {"/b"} |-> NoParams], a |-> << "L0", "PB" >>,
                    b |-> << "E0" >>, has_shadow |-> FALSE] >>,
     mods |-> [m \in {"L0", "E0", "PA", "PB"} |->
                 CASE m = "L0" -> [Loader EXCEPT !.reads_session = TRUE]
                   [] m = "PA" -> [Loader EXCEPT !.deps = {Api}, !.maxage = CacheMaxage]
                   [] m = "PB" -> [Loader EXCEPT !.ret = ret_b]
                   [] OTHER -> Loader],
     redir |-> [p \in {"/a", "/b"} |-> "none"],
     shadow |-> NoShadow,
     trailing_slash |-> "never",
     start |-> Plain("/a"),
     urls |-> {Plain("/a"), Plain("/b")},
     replace |-> {FALSE},
     prefetch |-> prefetch,
     hrefs |-> {Api},
     can_block |-> {FALSE},
     updated |-> {FALSE},
     can_disable |-> {FALSE},
     links |-> {},
     fragments |-> {},
     anchors |-> [h \in {} |-> 0],
     forward |-> << >>,
     max_cancels |-> MaxCancels,
     max_entries |-> MaxEntries,
     max_gotos |-> MaxUpdates,
     max_updates |-> MaxUpdates,
     max_loads |-> MaxLoads]

Constructed(world) ==
    /\ cfg = world
    /\ cache = [k \in {} |-> NoResult]
    /\ timers = {}
    /\ invalidated = {}
    /\ load_cache = [id |-> NoId, promise |-> 0]
    /\ current = NoState
    /\ started = FALSE
    /\ autoscroll = TRUE
    /\ updating = FALSE
    /\ session_id = 1
    /\ invalidating = 0
    /\ session = 1
    /\ current_history_index = BaseIndex
    /\ token = 0
    /\ scroll_positions = [k \in {} |-> 0]
    /\ scrollY = 0
    /\ hist = [entries |-> << [url |-> world.start, index |-> BaseIndex] >>
                                \o world.forward,
               pos |-> 1, go |-> 0, hashchange |-> FALSE]
    /\ unloaded = FALSE
    /\ navigating = NotNavigating
    /\ rendered = [rid |-> 0, url |-> NoUrl]
    /\ upd = << >>
    /\ loads = << >>
    /\ invalidate_calls = [href \in world.hrefs |-> 0]
    /\ hash_navigating = FALSE
    /\ cancelled = 0
    /\ now = 0

-----------------------------------------------------------------------------
(* The router under concurrent navigations, prefetches, invalidations,     *)
(* session changes and cache timeouts                                      *)

Init == \E ret_b \in {"value", "error"} : Constructed(TwoPages(ret_b, {Plain("/a")}))

Next ==
    \/ Hydrate
    \/ \E url \in cfg.urls, replaceState \in cfg.replace : Goto(url, replaceState)
    \/ \E url \in cfg.prefetch : Prefetch(url)
    \/ \E href \in cfg.hrefs : Invalidate(href)
    \/ InvalidateRun
    \/ InvalidateSettled
    \/ SessionSet
    \/ Tick
    \/ \E l \in DOMAIN loads : LoadStep(l)
    \/ \E u \in DOMAIN upd : UpdateLoaded(u)
    \/ \E u \in DOMAIN upd : UpdateChecked(u)
    \/ \E u \in DOMAIN upd : UpdateTick(u)

Spec == Init /\ [][Next]_vars

-----------------------------------------------------------------------------
(* The router under navigations, prefetches of both pages and invalidations *)

InitPrefetch == Constructed(TwoPages("value", {Plain("/a"), Plain("/b")}))

NextPrefetch ==
    \/ Hydrate
    \/ \E url \in cfg.urls, replaceState \in cfg.replace : Goto(url, replaceState)
    \/ \E url \in cfg.prefetch : Prefetch(url)
    \/ \E href \in cfg.hrefs : Invalidate(href)
    \/ InvalidateRun
    \/ InvalidateSettled
    \/ \E l \in DOMAIN loads : LoadStep(l)
    \/ \E u \in DOMAIN upd : UpdateLoaded(u)
    \/ \E u \in DOMAIN upd : UpdateTick(u)

SpecPrefetch == InitPrefetch /\ [][NextPrefetch]_vars

-----------------------------------------------------------------------------
(* The router on pages whose load redirects to the next page *)

Page(k) == "/p" \o ToString(k)

Home == "/home"

\* pages /p0 .. /p(n-1) redirect, each to the next one, the last of them to /p(back) when
\* back >= 0; the other pages render.  The default error component may throw.
Redirecting(n, back, ret_e0) ==
    [routes |-> << [exec |-> [p \in { Page(k) : k \in 0..MaxChain } |-> NoParams],
                    a |-> << "L0", "PR" >>, b |-> << >>, has_shadow |-> FALSE],
                   [exec |-> [p \in {Home} |-> NoParams], a |-> << "L0", "PH" >>,
                    b |-> << >>, has_shadow |-> FALSE] >>,
     mods |-> [m \in {"L0", "E0", "PR", "PH"} |->
                 CASE m = "PR" -> [Loader EXCEPT !.ret = "byurl"]
                   [] m = "E0" -> [Loader EXCEPT !.ret = ret_e0]
                   [] OTHER -> Loader],
     redir |-> [p \in { Page(k) : k \in 0..MaxChain } \cup {Home} |->
                 IF \E k \in 0..(n - 1) : p = Page(k)
                 THEN (IF p = Page(n - 1) /\ back >= 0 THEN Page(back)
                       ELSE CHOOSE q \in { Page(k) : k \in 1..MaxChain } :
                                \E k \in 0..(n - 1) : p = Page(k) /\ q = Page(k + 1))
                 ELSE "none"],
     shadow |-> NoShadow,
     trailing_slash |-> "never",
     start |-> Plain(Home),
     urls |-> {Plain(Page(0))},
     replace |-> {FALSE},
     prefetch |-> {},
     hrefs |-> {},
     can_block |-> {FALSE, TRUE},
     updated |-> {FALSE},
     can_disable |-> {FALSE},
     links |-> {},
     fragments |-> {},
     anchors |-> [h \in {} |-> 0],
     forward |-> << >>,
     max_cancels |-> MaxCancels,
     max_entries |-> MaxEntries,
     max_gotos |-> 2,
     max_updates |-> MaxChain + 2,
     max_loads |-> MaxChain + 2]

InitRedirect ==
    \E n \in 0..MaxChain, back \in -1..1, ret_e0 \in {"value", "throw"} :
        /\ back < n
        /\ Constructed(Redirecting(n, back, ret_e0))

NextRedirect ==
    \/ Hydrate
    \/ \E url \in cfg.urls, replaceState \in cfg.replace : Goto(url, replaceState)
    \/ \E l \in DOMAIN loads : LoadStep(l)
    \/ \E u \in DOMAIN upd : UpdateLoaded(u)
    \/ \E u \in DOMAIN upd : UpdateRootError(u)
    \/ \E u \in DOMAIN upd : UpdateLoopPage(u)
    \/ \E u \in DOMAIN upd : UpdateTick(u)

SpecRedirect == InitRedirect /\ [][NextRedirect]_vars

-----------------------------------------------------------------------------
(* The router on a blog: /posts/[id], whose page reads params.id, and /c under a      *)
(* nested layout with its own error boundary                                          *)

Post(id, q) == Url("/posts/" \o id, FALSE, q, "")

MissingReturn == "load function must return a value"

Blog(ret_pc, ret_e1, ret_e0) ==
    [routes |-> << [exec |-> [p \in {"/posts/1", "/posts/2"} |->
                                [k \in {"id"} |-> IF p = "/posts/1" THEN "1" ELSE "2"]],
                    a |-> << "L0", "PP" >>, b |-> << "E0" >>, has_shadow |-> FALSE],
                   [exec |-> [p \in {"/c"} |-> NoParams],
                    a |-> << "L0", "L1", "PC" >>, b |-> << "E0", "E1" >>,
                    has_shadow |-> FALSE] >>,
     mods |-> [m \in {"L0", "E0", "L1", "E1", "PP", "PC"} |->
                 CASE m = "L0" -> [Loader EXCEPT !.reads_session = TRUE]
                   [] m = "PP" -> [Loader EXCEPT !.reads_params = {"id"}]
                   [] m = "PC" -> [Loader EXCEPT !.ret = ret_pc]
                   [] m = "E1" -> [Loader EXCEPT !.ret = ret_e1]
                   [] m = "E0" -> [Loader EXCEPT !.ret = ret_e0]
                   [] OTHER -> Loader],
     redir |-> [p \in {"/posts/1", "/posts/2", "/c"} |-> "none"],
     shadow |-> NoShadow,
     trailing_slash |-> "never",
     start |-> Post("1", "?x=1"),
     urls |-> {Post("1", "?x=2"), Post("2", "?x=1"), Plain("/c")},
     replace |-> {FALSE},
     prefetch |-> {},
     hrefs |-> {},
     can_block |-> {FALSE},
     updated |-> {FALSE},
     can_disable |-> {FALSE},
     links |-> {},
     fragments |-> {},
     anchors |-> [h \in {} |-> 0],
     forward |-> << >>,
     max_cancels |-> MaxCancels,
     max_entries |-> MaxEntries,
     max_gotos |-> MaxUpdates,
     max_updates |-> MaxUpdates,
     max_loads |-> MaxLoads]

InitLoad ==
    \E ret_pc \in {"nothing", "error", "value"}, ret_e1 \in {"value", "error"},
       ret_e0 \in {"value", "throw", "nothing"} :
        Constructed(Blog(ret_pc, ret_e1, ret_e0))

NextLoad ==
    \/ Hydrate
    \/ \E url \in cfg.urls, replaceState \in cfg.replace : Goto(url, replaceState)
    \/ SessionSet
    \/ \E l \in DOMAIN loads : LoadStep(l)
    \/ \E u \in DOMAIN upd : UpdateLoaded(u)
    \/ \E u \in DOMAIN upd : UpdateChecked(u)
    \/ \E u \in DOMAIN upd : UpdateTick(u)

SpecLoad == InitLoad /\ [][NextLoad]_vars

-----------------------------------------------------------------------------
(* The router under goto with and without replaceState, back and forward, scrolling *)

InitHistory ==
    Constructed([TwoPages("value", {}) EXCEPT !.replace = {FALSE, TRUE},
                                              !.max_gotos = MaxReplays,
                                              !.max_updates = MaxReplays,
                                              !.max_loads = MaxReplays])

NextHistory ==
    \/ Hydrate
    \/ \E url \in cfg.urls, replaceState \in cfg.replace : Goto(url, replaceState)
    \/ \E k \in 1..(MaxReplays + 1) : Popstate(k)
    \/ UserScroll
    \/ \E l \in DOMAIN loads : LoadStep(l)
    \/ \E u \in DOMAIN upd : UpdateLoaded(u)
    \/ \E u \in DOMAIN upd : UpdateTick(u)

SpecHistory == InitHistory /\ [][NextHistory]_vars

-----------------------------------------------------------------------------
(* The router under links, fragments, goto, back and forward, with a before_navigate
   callback that may cancel *)

Fragment(p, h) == Url(p, FALSE, "", h)

InitBrowser ==
    Constructed([TwoPages("value", {}) EXCEPT !.urls = {Fragment("/a", "x"), Plain("/b")},
                                              !.links = {Fragment("/a", "x"), Plain("/b")},
                                              !.fragments = {Fragment("/a", "x")},
                                              !.can_block = {FALSE, TRUE},
                                              !.max_gotos = 1,
                                              !.max_updates = MaxUpdates,
                                              !.max_loads = MaxUpdates])

NextBrowser ==
    \/ Hydrate
    \/ \E url \in cfg.urls : Goto(url, FALSE)
    \/ \E url \in cfg.links : Click(url)
    \/ \E url \in cfg.fragments : NativeFragment(url)
    \/ Hashchange
    \/ \E k \in 1..MaxEntries : Popstate(k)
    \/ HistoryGo
    \/ \E l \in DOMAIN loads : LoadStep(l)
    \/ \E u \in DOMAIN upd : UpdateLoaded(u)
    \/ \E u \in DOMAIN upd : UpdateTick(u)

SpecBrowser == InitBrowser /\ [][NextBrowser]_vars

-----------------------------------------------------------------------------
(* The router under invalidate() calls for two resources: the page depends on /api,
   the root layout on /feed *)

Feed == Plain("/feed")

InitInvalidate ==
    Constructed([TwoPages("value", {}) EXCEPT !.mods["L0"].deps = {Feed},
                                              !.hrefs = {Api, Feed},
                                              !.max_updates = MaxUpdates,
                                              !.max_loads = MaxUpdates])

NextInvalidate ==
    \/ Hydrate
    \/ \E href \in cfg.hrefs : Invalidate(href)
    \/ InvalidateRun
    \/ InvalidateSettled
    \/ Tick
    \/ \E l \in DOMAIN loads : LoadStep(l)
    \/ \E u \in DOMAIN upd : UpdateLoaded(u)
    \/ \E u \in DOMAIN upd : UpdateTick(u)

SpecInvalidate == InitInvalidate /\ [][NextInvalidate]_vars

-----------------------------------------------------------------------------
(* The router under navigations of an app whose components call
   disable_scroll_handling, while the user scrolls *)

InitScroll ==
    Constructed([TwoPages("value", {}) EXCEPT !.can_disable = {FALSE, TRUE},
                                              !.max_updates = MaxUpdates,
                                              !.max_loads = MaxUpdates])

NextScroll ==
    \/ Hydrate
    \/ \E url \in cfg.urls : Goto(url, FALSE)
    \/ DisableScrollHandling
    \/ UserScroll
    \/ \E l \in DOMAIN loads : LoadStep(l)
    \/ \E u \in DOMAIN upd : UpdateLoaded(u)
    \/ \E u \in DOMAIN upd : UpdateTick(u)

SpecScroll == InitScroll /\ [][NextScroll]_vars

-----------------------------------------------------------------------------
(* The router on an app with a page /s that has a shadow endpoint, for each
   response the endpoint may give *)

Responses ==
    { [ok |-> status < 300, status |-> status, location |-> header, body |-> body] :
         status \in {200, 204, 404}, header \in {"none", "/b"},
         body \in {"object", "null", "invalid"} }

Shadowed(res) ==
    [TwoPages("value", {}) EXCEPT
        !.routes = Append(@, [exec |-> [p \in {"/s"} |-> NoParams],
                              a |-> << "L0", "PB" >>, b |-> << "E0" >>,
                              has_shadow |-> TRUE]),
        !.shadow = res,
        !.urls = {Plain("/s"), Plain("/b")},
        !.max_updates = MaxUpdates,
        !.max_loads = MaxUpdates]

InitShadow == \E res \in Responses : Constructed(Shadowed(res))

NextShadow ==
    \/ Hydrate
    \/ \E url \in cfg.urls : Goto(url, FALSE)
    \/ \E l \in DOMAIN loads : LoadStep(l)
    \/ \E u \in DOMAIN upd : UpdateLoaded(u)
    \/ \E u \in DOMAIN upd : UpdateChecked(u)
    \/ \E u \in DOMAIN upd : UpdateTick(u)

SpecShadow == InitShadow /\ [][NextShadow]_vars

-----------------------------------------------------------------------------
(* The router on an app whose root layout reads the session and returns stuff; the
   page /a fetches /api and reads stuff or not, the page /b reads the url *)

Query(p, q) == Url(p, FALSE, q, "")

Stuffed(reads_stuff) ==
    [TwoPages("value", {}) EXCEPT
        !.mods["L0"].has_stuff = TRUE,
        !.mods["L0"].stuff = [k \in {"user"} |-> "guest"],
        !.mods["PA"].reads_stuff = reads_stuff,
        !.mods["PA"].maxage = 0,
        !.mods["PB"].reads_url = TRUE,
        !.urls = {Query("/a", "q"), Plain("/b")},
        !.max_updates = MaxUpdates,
        !.max_loads = MaxUpdates]

InitStuff == \E reads_stuff \in BOOLEAN : Constructed(Stuffed(reads_stuff))

NextStuff ==
    \/ Hydrate
    \/ \E url \in cfg.urls : Goto(url, FALSE)
    \/ SessionSet
    \/ \E href \in cfg.hrefs : Invalidate(href)
    \/ InvalidateRun
    \/ InvalidateSettled
    \/ \E l \in DOMAIN loads : LoadStep(l)
    \/ \E u \in DOMAIN upd : UpdateLoaded(u)
    \/ \E u \in DOMAIN upd : UpdateTick(u)

SpecStuff == InitStuff /\ [][NextStuff]_vars

-----------------------------------------------------------------------------
(* The router started on a URL that no route matches (the fallback page of a
   single-page app), with and without a new version deployed *)

Fallback(ret_e0) ==
    [TwoPages("value", {}) EXCEPT !.mods["E0"].ret = ret_e0,
                                  !.start = Plain("/x"),
                                  !.urls = {Query("/x", "q"), Plain("/y"),
                                            External("/x"), Plain("/a")},
                                  !.updated = {FALSE, TRUE},
                                  !.max_gotos = 2,
                                  !.max_updates = 2,
                                  !.max_loads = 2]

InitFallback == \E ret_e0 \in {"value", "bysearch"} : Constructed(Fallback(ret_e0))

NextFallback ==
    \/ Hydrate
    \/ \E url \in cfg.urls : Goto(url, FALSE)
    \/ \E l \in DOMAIN loads : LoadStep(l)
    \/ \E u \in DOMAIN upd : UpdateLoaded(u)
    \/ \E u \in DOMAIN upd : UpdateRootError(u)
    \/ \E u \in DOMAIN upd : UpdateNotFound(u)
    \/ \E u \in DOMAIN upd : UpdateChecked(u)
    \/ \E u \in DOMAIN upd : UpdateTick(u)

SpecFallback == InitFallback /\ [][NextFallback]_vars

-----------------------------------------------------------------------------
(* The router under each trailing_slash policy, with links and prefetches that
   carry a trailing slash; the pages and the error component declare a maxage *)

Slashed(p) == Url(p, TRUE, "", "")

Sloppy(ts, ret_a) ==
    [TwoPages("value", {Slashed("/a"), Plain("/a")}) EXCEPT
        !.trailing_slash = ts,
        !.mods["PA"].ret = ret_a,
        !.mods["E0"].maxage = CacheMaxage,
        !.start = Plain("/b"),
        !.urls = {Slashed("/a"), Plain("/b")},
        !.max_updates = MaxUpdates,
        !.max_loads = MaxLoads]

InitSlash ==
    \E ts \in {"never", "always", "ignore"}, ret_a \in {"value", "error"} :
        Constructed(Sloppy(ts, ret_a))

NextSlash ==
    \/ Hydrate
    \/ \E url \in cfg.urls : Goto(url, FALSE)
    \/ \E url \in cfg.prefetch : Prefetch(url)
    \/ \E l \in DOMAIN loads : LoadStep(l)
    \/ \E u \in DOMAIN upd : UpdateLoaded(u)
    \/ \E u \in DOMAIN upd : UpdateChecked(u)
    \/ \E u \in DOMAIN upd : UpdateTick(u)

SpecSlash == InitSlash /\ [][NextSlash]_vars

-----------------------------------------------------------------------------
(* The router on two cached pages, with prefetches of the page it is on     *)

Cached ==
    [TwoPages("value", {Plain("/a")}) EXCEPT
        !.start = Plain("/b"),
        !.max_updates = MaxUpdates + 1,
        !.max_gotos = MaxUpdates + 1,
        !.max_loads = MaxLoads + 1]

InitPage == Constructed(Cached)

NextPage ==
    \/ Hydrate
    \/ \E url \in cfg.urls : Goto(url, FALSE)
    \/ \E url \in cfg.prefetch : Prefetch(url)
    \/ \E l \in DOMAIN loads : LoadStep(l)
    \/ \E u \in DOMAIN upd : UpdateLoaded(u)
    \/ \E u \in DOMAIN upd : UpdateTick(u)

SpecPage == InitPage /\ [][NextPage]_vars

-----------------------------------------------------------------------------
(* The router in a document loaded in the middle of a session: the history holds an
   entries ahead, /a#x and /a, stamped by the document before, and sessionStorage gave no
   scroll positions; the user scrolls, goes back and forward, and components may
   call disable_scroll_handling *)

InitRestore ==
    Constructed([TwoPages("value", {}) EXCEPT
                    !.start = Plain("/b"),
                    !.forward = << [url |-> Fragment("/a", "x"), index |-> BaseIndex + 1],
                                   [url |-> Plain("/a"), index |-> BaseIndex + 2] >>,
                    !.anchors = [h \in {"x"} |-> 2],
                    !.can_disable = {FALSE, TRUE},
                    !.max_updates = MaxUpdates,
                    !.max_loads = MaxUpdates])

NextRestore ==
    \/ Hydrate
    \/ \E url \in cfg.urls : Goto(url, FALSE)
    \/ \E k \in 1..MaxEntries : Popstate(k)
    \/ DisableScrollHandling
    \/ UserScroll
    \/ \E l \in DOMAIN loads : LoadStep(l)
    \/ \E u \in DOMAIN upd : UpdateLoaded(u)
    \/ \E u \in DOMAIN upd : UpdateTick(u)

SpecRestore == InitRestore /\ [][NextRestore]_vars

-----------------------------------------------------------------------------
(* The router on the blog when the root layout reads params.id, which /c does not
   have, the layout of /c reads the URL and returns stuff unless the URL has a query,
   and the page of /c reads stuff *)

InitReuse ==
    \E ret_pc \in {"value", "error"} :
        Constructed([Blog(ret_pc, "value", "value") EXCEPT
                        !.mods["L0"].reads_params = {"id"},
                        !.mods["L1"].reads_url = TRUE,
                        !.mods["L1"].ret = "barebysearch",
                        !.mods["L1"].has_stuff = TRUE,
                        !.mods["L1"].stuff = [k \in {"crumb"} |-> "c"],
                        !.mods["PC"].reads_stuff = TRUE,
                        !.start = Plain("/c"),
                        !.urls = {Post("1", ""), Plain("/c"), Query("/c", "q")}])

SpecReuse == InitReuse /\ [][NextLoad]_vars

-----------------------------------------------------------------------------
(* The router on an app with a page /n two directories deep: the first directory
   has an error component and no layout, the second a layout and no error
   component, so the route has an empty slot in `a` and one in `b` *)

Nested(ret_l0, ret_pn, ret_e1, ret_e0) ==
    [TwoPages("value", {}) EXCEPT
        !.routes = << [exec |-> [p \in {"/n"} |-> NoParams],
                       a |-> << "L0", "none", "L2", "PN" >>,
                       b |-> << "E0", "E1", "none" >>, has_shadow |-> FALSE] >> \o @,
        !.mods = [m \in {"L0", "E0", "PA", "PB", "L2", "PN", "E1"} |->
                    CASE m = "L0" -> [Loader EXCEPT !.reads_session = TRUE,
                                                    !.reads_url = (ret_l0 # "value"),
                                                    !.ret = ret_l0]
                      [] m = "L2" -> [Loader EXCEPT !.has_stuff = TRUE,
                                                    !.stuff = [k \in {"dir"} |-> "two"]]
                      [] m = "PN" -> [Loader EXCEPT !.ret = ret_pn, !.status = 403]
                      [] m = "E1" -> [Loader EXCEPT !.ret = ret_e1]
                      [] m = "E0" -> [Loader EXCEPT !.ret = ret_e0]
                      [] OTHER -> Loader],
        !.redir = [p \in {"/a", "/b", "/n"} |-> "none"],
        !.urls = {Plain("/n"), Query("/n", "q")},
        !.max_updates = MaxUpdates,
        !.max_loads = MaxUpdates]

InitNested ==
    \E ret_l0 \in {"value", "errbysearch"}, ret_pn \in {"value", "error", "throw"},
       ret_e1 \in {"value", "error"}, ret_e0 \in {"value", "error", "throw"} :
        Constructed(Nested(ret_l0, ret_pn, ret_e1, ret_e0))

NextNested ==
    \/ Hydrate
    \/ \E url \in cfg.urls : Goto(url, FALSE)
    \/ \E l \in DOMAIN loads : LoadStep(l)
    \/ \E u \in DOMAIN upd : UpdateLoaded(u)
    \/ \E u \in DOMAIN upd : UpdateChecked(u)
    \/ \E u \in DOMAIN upd : UpdateTick(u)

SpecNested == InitNested /\ [][NextNested]_vars

-----------------------------------------------------------------------------
(* The router when the route of /n has no layout in its first two slots of `a`
   (the error components E0 and E1 are still there), so that nothing is in the
   branch before the layout L2 has loaded *)

InitBare ==
    \E ret_l2 \in {"value", "error", "throw"}, ret_pn \in {"value", "error"},
       ret_e1 \in {"value", "error"} :
        Constructed([Nested("value", ret_pn, ret_e1, "value") EXCEPT
                        !.routes[1].a = << "none", "none", "L2", "PN" >>,
                        !.mods["L2"].ret = ret_l2])

SpecBare == InitBare /\ [][NextNested]_vars

-----------------------------------------------------------------------------
(* update() and its cancellation token *)

Committed(u) == upd[u].pc \in {"tick", "done"}

\* C11 (as the specification states it): a navigation whose target differs from the
\* current URL by its fragment only never enters update(): no token is allocated for
\* it and load_route is not called, whether it came from a link, goto or the history
C11_FragmentBypassesLoader ==
    \A u \in DOMAIN upd :
        upd[u].has_opts =>
            ~(upd[u].url.hash # "" /\ base_of(upd[u].url) = base_of(upd[u].from))

\* C11 (amended): a click on a link whose target has a fragment and differs from the
\* location by the fragment at most allocates no token, starts no update and no load,
\* leaves the caches and `current` alone, and publishes the target as the page's url
C11_ClickedFragmentBypassesLoader ==
    [][(~hash_navigating /\ hash_navigating')
          => /\ UNCHANGED << token, upd, loads, cache, load_cache, current, cancelled,
                             navigating >>
             /\ rendered'.url.hash # ""
             /\ base_of(rendered'.url) = base_of(location)
             /\ rendered'.rid = rendered.rid]_vars

C11_Witness ==
    /\ hash_navigating
    /\ rendered.url = Fragment("/a", "x")
    /\ location = Fragment("/a", "x")
    /\ token = 0

\* C12: a navigate() call that a before_navigate callback cancelled changes neither
\* `current`, the token, the scroll positions, the history index, the caches, the
\* loads nor the navigating store
C12_CancelledChangesNothing ==
    [][cancelled' # cancelled
          => UNCHANGED << current, token, scroll_positions, current_history_index,
                          cache, load_cache, loads, navigating, rendered, timers >>]_vars

C12_Witness ==
    /\ cancelled > 0
    /\ \E u \in DOMAIN upd : upd[u].pc = "load" /\ token = u

\* C13: after a cancelled popstate the history is back on the entry whose index is
\* current_history_index, and the traversal that brought it there started no
\* navigation
C13_BlockedPopstateIsUndone ==
    [][(hist.go # 0 /\ hist'.go = 0)
          => /\ upd' = upd
             /\ cancelled' = cancelled
             /\ hist'.entries[hist'.pos].index = current_history_index']_vars

\* the update found no navigation result for its URL
Unmatched(u) == upd[u].load = 0 /\ upd[u].pc # "none"

\* its URL had the origin and the pathname of the location it was called at
SamePage(u) ==
    upd[u].url.origin = upd[u].loc.origin /\ pathname(upd[u].url) = pathname(upd[u].loc)

Committing == { u \in DOMAIN upd : upd[u].pc = "tick" }

C1_NoInterleaving ==
    \A u \in DOMAIN upd : ~upd[u].superseded_at_commit

-----------------------------------------------------------------------------
(* invalidate() *)

\* the nodes of a branch that depend on href and ran before the call-th invalidate(href)
StaleNodes(branch, calls) ==
    { k \in DOMAIN branch :
        \E href \in DOMAIN calls :
            /\ href \in branch[k].uses.dependencies
            /\ branch[k].saw_calls[href] < calls[href] }

\* C2 (as the specification states it): the update that invalidate(href) starts for
\* the current page commits no node that depends on href and was loaded before the call.
C2_InvalidateReloads ==
    \A u \in DOMAIN upd :
        upd[u].kind = "invalidate" /\ Committed(u)
            => StaleNodes(upd[u].result.state.branch, upd[u].at_call.calls) = {}

\* a load of the shadowed page /s that returned, having called the endpoint
ShadowLoads ==
    { l \in DOMAIN loads :
        /\ loads[l].pc = "done"
        /\ loads[l].route # 0
        /\ routes[loads[l].route].has_shadow
        /\ ~loads[l].hit
        /\ 2 \notin loads[l].reused }

\* the leaf of the branch a load returned
Leaf(l) == Last(loads[l].result.state.branch)

\* C17: the shadow response decides what the load of the leaf of /s yields: a redirect
\* for an OK response with x-sveltekit-location, empty props for 204, the parsed body
\* for another OK response, and for a response that is not OK a load error with the
\* status and body of the response, the loader of the leaf not being called
C17_ShadowResponseDecides ==
    \A l \in ShadowLoads :
        \E res \in {cfg.shadow}, got \in {loads[l].result} :
            CASE res.ok /\ res.location # "none" ->
                    got.redirect = Plain(res.location)
              [] res.ok /\ res.status = 204 ->
                    got.redirect = NoUrl /\ Leaf(l).props = "empty"
              [] res.ok /\ res.body # "invalid" ->
                    got.redirect = NoUrl /\ Leaf(l).props \in {"body", "null"}
              [] ~res.ok ->
                    /\ got.status = res.status
                    /\ got.state.error = IF res.body = "invalid" THEN "Failed to load data"
                                          ELSE "shadow error body"
                    /\ << l, 2, "a" >> \notin loads[l].ran
              [] OTHER -> TRUE

\* C16: a navigation reaches its scroll step with autoscroll false only when
\* disable_scroll_handling was called during that navigation
C16_DisabledByOwnCallOnly ==
    \A u \in DOMAIN upd :
        (upd[u].has_opts /\ upd[u].pc = "done" /\ ~upd[u].autoscroll) => upd[u].disabled

\* C15: invalidate() calls made before the invalidation under way has settled share
\* one update, and once the promise they returned has resolved, every node of the
\* page that depends on a resource one of them named was loaded after that call
C15_OnePassEvaluatesEveryCall ==
    /\ Cardinality({ u \in DOMAIN upd :
                        upd[u].kind = "invalidate" /\ upd[u].pc \in {"load", "tick"} })
          + (IF invalidating = -1 THEN 1 ELSE 0) <= 1
    /\ (started /\ invalidating = 0) => StaleNodes(current.branch, invalidate_calls) = {}

-----------------------------------------------------------------------------
(* the result cache *)

\* the result load_route handed to update u
Handed(u) == loads[upd[u].load].result

\* C3 (as the specification states it): a load_route call that does not bypass the
\* cache is never handed a result whose leaf declared maxage T when T seconds or more
\* had passed since the result was made.
C3_NothingServedAfterMaxage ==
    \A u \in DOMAIN upd :
        /\ upd[u].load # 0
        /\ loads[upd[u].load].pc = "done"
        /\ ~upd[u].no_cache
        /\ cache_maxage(Handed(u)) > 0
        => upd[u].at_call.now < Handed(u).at + cache_maxage(Handed(u))

\* C22: every result in the cache that load_route made is stored under the id of the
\* intent that load_route was called with, whether navigate or prefetch called it and
\* whatever the trailing_slash policy, and it is the result of a load that ended
\* without error and whose leaf declares a maxage
C22_CachedUnderIntentId ==
    \A k \in DOMAIN cache :
        cache[k].rid \in DOMAIN loads
            => /\ loads[cache[k].rid].id = k
               /\ cache[k].state.error = "none"
               /\ cache_maxage(cache[k]) > 0

\* the part of C22 about the key alone
C22_KeyIsId ==
    \A k \in DOMAIN cache :
        cache[k].rid \in DOMAIN loads => loads[cache[k].rid].id = k

\* the part of C22 about errors alone
C22_NoErrorCached ==
    \A k \in DOMAIN cache :
        cache[k].rid \in DOMAIN loads => cache[k].state.error = "none"

-----------------------------------------------------------------------------
(* prefetch() and load_cache *)

\* the loaders of a route that a load ran, by position
Slots(ran) == { << n[2], n[3] >> : n \in ran }

\* the prefetches of the same id made before update u called load_route whose loaders
\* the load of u ran again
Reran(u) ==
    { l \in 1..upd[u].at_call.loads :
        /\ l # upd[u].load
        /\ loads[l].prefetched
        /\ loads[l].id = loads[upd[u].load].id
        /\ Slots(loads[l].ran) \cap Slots(loads[upd[u].load].ran) # {} }

\* update u was handed a promise or a result that existed when it called load_route
Shared(u) == upd[u].load <= upd[u].at_call.loads \/ loads[upd[u].load].hit

\* C10 (as the specification states it): a navigation to a target that was prefetched
\* runs none of the loaders the prefetch ran, whatever happened in between.
C10_NeverDuplicates ==
    \A u \in DOMAIN upd : upd[u].kind = "goto" /\ upd[u].load # 0 => Reran(u) = {}

\* C10 (amended): a navigation shares the work already done for its target exactly
\* when, at its load_route call, load_cache still holds the target's id or the cache
\* holds a result under it; load_cache is one slot that every prefetch overwrites and
\* every committed update clears.
C10_SharedWhileHeld ==
    \A u \in DOMAIN upd :
        upd[u].kind = "goto" /\ upd[u].load # 0
            => (Shared(u) <=> (upd[u].at_call.slot \/ upd[u].at_call.cached))

\* a navigation committed the result of the prefetch that was in flight when it began
C10_Witness ==
    \E u \in DOMAIN upd :
        /\ upd[u].kind = "goto"
        /\ Committed(u)
        /\ upd[u].at_call.slot
        /\ ~upd[u].at_call.cached
        /\ loads[upd[u].load].prefetched
        /\ loads[upd[u].load].ran # {}

\* C21: a load_route call that bypasses the cache (invalidate, session change) is
\* handed neither a load that was in flight or prefetched when it was made nor a cached
\* result: it begins a branch evaluation of its own against the current state
C21_BypassIsFresh ==
    \A u \in DOMAIN upd :
        upd[u].no_cache /\ upd[u].load # 0
            => /\ upd[u].load > upd[u].at_call.loads
               /\ ~loads[upd[u].load].hit
               /\ loads[upd[u].load].no_cache

-----------------------------------------------------------------------------
(* redirects *)

\* update u resumed from load_route with a redirect while it held the token
GotRedirect(u) ==
    /\ upd[u].load # 0
    /\ upd[u].pc \notin {"load", "aborted"}
    /\ loads[upd[u].load].pc = "done"
    /\ loads[upd[u].load].result.redirect # NoUrl

\* update u ended on load_root_error_page({ status: 500, error: 'Redirect loop' })
\* instead of following the redirect
Refused(u) ==
    /\ ~upd[u].followed
    /\ upd[u].pc \in {"loop500", "got500", "threw", "tick", "done"}
    /\ Committed(u) => /\ upd[u].result.root_error
                       /\ upd[u].result.status = 500
                       /\ upd[u].result.state.error = "Redirect loop"

Revisits(u) ==
    \E k \in DOMAIN upd[u].redirect_chain : upd[u].redirect_chain[k] = pathname(upd[u].url)

\* the navigations to the target of the redirect that update u received, with the
\* pathname of u appended to its chain
Following(u) ==
    { v \in DOMAIN upd :
        /\ v > u
        /\ upd[v].has_opts
        /\ upd[v].url = loads[upd[u].load].result.redirect
        /\ upd[v].redirect_chain = Append(upd[u].redirect_chain, pathname(upd[u].url)) }

\* load_route l returns a redirect in this step
ReturnsRedirect(l) ==
    /\ loads'[l].pc = "done"
    /\ loads'[l].result.redirect # NoUrl
    /\ (l \in DOMAIN loads => loads[l].pc # "done")

\* C19 (as the specification states it): an update that receives a redirect (and was
\* not superseded meanwhile) writes neither the history, `current` nor the page and
\* calls goto for the target
C19_RedirectIsFollowed ==
    \A u \in DOMAIN upd : GotRedirect(u) => ~Committed(u) /\ upd[u].pc = "redirected"

\* C19 (amended): a load that finds a redirect returns it with state = current and
\* puts nothing in the cache; an update that receives it while it holds the token and
\* sees no redirect loop writes neither the history, `current` nor the page and calls
\* goto for the target with its pathname appended to the chain, a navigation that
\* starts unless a before_navigate callback cancels it
C19_RedirectIsFollowedUnlessLoop ==
    /\ [][\A l \in DOMAIN loads' :
             ReturnsRedirect(l)
                => /\ loads'[l].result.state = current
                   /\ cache' = cache
                   /\ timers' = timers]_vars
    /\ [](\A u \in DOMAIN upd :
             (GotRedirect(u) /\ ~redirect_loop(upd[u].redirect_chain, upd[u].url))
                => /\ upd[u].pc = "redirected"
                   /\ upd[u].followed => Following(u) # {})
    /\ [][\A u \in DOMAIN upd :
             (upd[u].pc = "load" /\ upd'[u].pc = "redirected")
                => /\ UNCHANGED << hist, current, rendered, current_history_index >>
                   /\ \/ /\ cancelled' = cancelled
                         /\ Len(upd') = Len(upd) + 1
                         /\ upd'[Len(upd')].has_opts
                         /\ upd'[Len(upd')].url.path
                               = loads[upd[u].load].result.redirect.path
                         /\ upd'[Len(upd')].redirect_chain
                               = Append(upd[u].redirect_chain, pathname(upd[u].url))
                      \/ /\ cancelled' = cancelled + 1
                         /\ Len(upd') = Len(upd)]_vars

\* /p0 redirected to /p1, the navigation to /p1 was started with /p0 in its chain and
\* rendered /p1
C19_Witness ==
    \E u \in DOMAIN upd :
        /\ GotRedirect(u)
        /\ upd[u].pc = "redirected"
        /\ \E v \in Following(u) :
              /\ upd[v].pc = "done"
              /\ upd[v].redirect_chain = << pathname(Plain(Page(0))) >>
              /\ rendered.rid = upd[v].result.rid
              /\ current.url = Plain(Page(1))

\* C4 (as the specification states it): no chain of more than 10 redirects is
\* followed, so no update is ever started with more than 10 pathnames behind it.
C4_AtMostTenHops ==
    \A u \in DOMAIN upd : Len(upd[u].redirect_chain) <= MaxRedirects

\* C4 (amended): the test is redirect_chain.length > 10, made before the pathname of
\* the redirecting page is appended.  So up to 11 redirects through distinct pathnames
\* are followed (or stopped by a before_navigate callback); the 12th is refused and
\* ends on the root error page with status 500 and error "Redirect loop".
C4_TwelfthRefused ==
    \A u \in DOMAIN upd :
        /\ Len(upd[u].redirect_chain) <= MaxRedirects + 1
        /\ GotRedirect(u) /\ ~Revisits(u)
            => IF Len(upd[u].redirect_chain) = MaxRedirects + 1
               THEN Refused(u)
               ELSE upd[u].pc = "redirected"

\* the 11th redirect through distinct pathnames was followed and the 12th refused: the
\* root error page is rendered with status 500
C4_Witness ==
    \E u \in DOMAIN upd :
        /\ Len(upd[u].redirect_chain) = MaxRedirects + 1
        /\ upd[u - 1].followed
        /\ GotRedirect(u)
        /\ ~Revisits(u)
        /\ Committed(u)
        /\ upd[u].result.status = 500
        /\ rendered.rid = upd[u].result.rid

\* C5: an update that receives a redirect for a pathname already in its redirect
\* chain follows no redirect: it goes to the root error page with status 500 and
\* error "Redirect loop"; the updates before it in the chain, whose pathnames were
\* new, followed theirs.
C5_RevisitRefused ==
    \A u \in DOMAIN upd : GotRedirect(u) /\ Revisits(u) => Refused(u)

\* /p0 -> /p1 -> /p0: the second update for /p0 rendered the root error page
C5_Witness ==
    \E u \in DOMAIN upd :
        /\ upd[u].redirect_chain = << pathname(Plain(Page(0))), pathname(Plain(Page(1))) >>
        /\ upd[u].url = Plain(Page(0))
        /\ GotRedirect(u)
        /\ Committed(u)
        /\ upd[u].result.status = 500
        /\ upd[u].result.state.error = "Redirect loop"
        /\ rendered.rid = upd[u].result.rid

-----------------------------------------------------------------------------
(* what load_route runs again and what it reuses *)

ReadIdNotUrl(node) == "id" \in node.uses.params /\ ~node.uses.url

\* the load goes to the committed page's path with the committed params and session,
\* nothing the node depends on is invalidated and no layout above it gave new stuff
OnlySearchDiffers(ld, node) ==
    /\ pathname(ld.url) = pathname(current.url)
    /\ ld.url.search # current.url.search
    /\ ld.params = current.params
    /\ ld.began = current.session_id
    /\ node.uses.dependencies \cap invalidated = {}
    /\ ~ld.stuff_changed

\* what the specification requires of the previous node at the position load l has
\* reached, but for the stuff above it
SameInputs(ld, previous) ==
    /\ previous.module = routes[ld.route].a[ld.i]
    /\ ~(ld.changed.url /\ previous.uses.url)
    /\ ld.changed.params \cap previous.uses.params = {}
    /\ ~(ld.changed.session /\ previous.uses.session)
    /\ previous.uses.dependencies \cap invalidated = {}

\* load l, at a position of its loop, pushes the previous node itself and does not
\* call the loader
Reuses(l) ==
    /\ << l, loads[l].i, "a" >> \notin loads'[l].ran
    /\ loads[l].i \in loads'[l].reused
    /\ Len(loads'[l].branch) >= loads[l].i
    /\ loads'[l].branch[loads[l].i] = previous_node(loads[l].i)

\* load l calls the loader of the position it is at
Executes(l) ==
    /\ << l, loads[l].i, "a" >> \in loads'[l].ran
    /\ loads[l].i \notin loads'[l].reused

\* C20 (as the specification states it): the previous node is reused exactly when its
\* module is the same, no input it used changed, no dependency of it is invalidated
\* and no node above it gave new stuff in this load; otherwise its loader runs again
C20_ReusedUnlessStuffChanged ==
    [][\A l \in DOMAIN loads :
         (loads[l].pc = "loop" /\ loads'[l] # loads[l])
            => IF SameInputs(loads[l], previous_node(loads[l].i))
                  /\ ~loads[l].stuff_changed
               THEN Reuses(l)
               ELSE Executes(l)]_vars

\* C20 (amended): the previous node is reused exactly when its module is the same, no
\* input it used changed, no dependency of it is invalidated, and either no node above
\* it gave new stuff in this load or it never read stuff; otherwise its loader runs again
C20_ReusedUnlessUsedStuffChanged ==
    [][\A l \in DOMAIN loads :
         (loads[l].pc = "loop" /\ loads'[l] # loads[l])
            => IF SameInputs(loads[l], previous_node(loads[l].i))
                  /\ ~(loads[l].stuff_changed /\ previous_node(loads[l].i).uses.stuff)
               THEN Reuses(l)
               ELSE Executes(l)]_vars

\* after the session changed the root layout ran again and gave stuff; the page of
\* /a, which never read stuff, was committed as the hydration made it
C20_Witness ==
    \E u \in DOMAIN upd :
        /\ upd[u].kind = "session"
        /\ Committed(u)
        /\ ~cfg.mods["PA"].reads_stuff
        /\ upd[u].result.state.branch[1].nid = << upd[u].load, 1, "a" >>
        /\ upd[u].result.state.branch[1].loaded.has_stuff
        /\ upd[u].result.state.branch[2].nid = << 99, 2, "a" >>
        /\ rendered.rid = upd[u].result.rid

\* C6: when load_route reaches a node that read params.id and never read url, on the
\* page it began over, it runs the node's loader again if the target's id differs
\* from the committed one, and pushes the previous node itself, without calling its
\* loader, if the target differs from the committed URL in its search string only.
C6_ParamsNotSearch ==
    [][\A l \in DOMAIN loads :
         /\ loads[l].pc = "loop"
         /\ loads'[l] # loads[l]
         /\ loads[l].over = rendered.rid
         /\ previous_node(loads[l].i).module = routes[loads[l].route].a[loads[l].i]
         /\ ReadIdNotUrl(previous_node(loads[l].i))
         => /\ loads[l].params["id"] # current.params["id"]
                => << l, loads[l].i, "a" >> \in loads'[l].ran
            /\ OnlySearchDiffers(loads[l], previous_node(loads[l].i))
                => /\ << l, loads[l].i, "a" >> \notin loads'[l].ran
                   /\ loads'[l].branch[loads[l].i] = previous_node(loads[l].i)]_vars

\* /posts/1?x=1 -> /posts/1?x=2 committed the page node of the hydration, and
\* /posts/1?x=1 -> /posts/2?x=1 a page node of its own
C6_Witness ==
    /\ \E u \in DOMAIN upd :
         /\ Committed(u)
         /\ upd[u].url = Post("1", "?x=2")
         /\ upd[u].result.state.branch[2].nid = << 99, 2, "a" >>
         /\ upd[u].result.state.branch[2].uses.params = {"id"}
    /\ \E u \in DOMAIN upd :
         /\ Committed(u)
         /\ upd[u].url = Post("2", "?x=1")
         /\ upd[u].result.state.branch[2].nid = << upd[u].load, 2, "a" >>

\* what the loader of a node read of params is what the load under way has
SameParamsRead(ld, previous) ==
    \A k \in DOMAIN previous.saw.params :
        previous.saw.params[k] = (IF k \in DOMAIN ld.params THEN ld.params[k]
                                  ELSE "undefined")

\* the stuff the loader of a node read is the stuff the load under way has for it
SameStuffRead(ld, previous) ==
    previous.uses.stuff => previous.saw.stuff = ld.stuff

\* load l pushes the previous node in this step, nothing having been committed and
\* the session not having been set since it began
ReusesUndisturbed(l) ==
    /\ loads[l].pc = "loop"
    /\ loads'[l] # loads[l]
    /\ Reuses(l)
    /\ loads[l].began = session_id
    /\ loads[l].over = rendered.rid

\* C30: whenever load_route pushes the previous node instead of calling the loader
\* (here: in a load that no commit and no session change disturbed), the module at
\* the position is the node's and every input the node's loader read when it ran has
\* the same value in this load: the URL, each parameter it accessed (an absent one
\* being undefined), the session, and the stuff of the nodes above
C30_ReuseIsSound ==
    [][\A l \in DOMAIN loads :
         ReusesUndisturbed(l)
            => LET previous == previous_node(loads[l].i) IN
               /\ previous.module = routes[loads[l].route].a[loads[l].i]
               /\ previous.uses.url => path_search(previous.saw.url) = loads[l].id
               /\ SameParamsRead(loads[l], previous)
               /\ previous.uses.session => previous.saw_session = session
               /\ SameStuffRead(loads[l], previous)]_vars

\* the part of C30 about the parameters
C30_ParamsAreSame ==
    [][\A l \in DOMAIN loads :
         ReusesUndisturbed(l)
            => SameParamsRead(loads[l], previous_node(loads[l].i))]_vars

\* the part of C30 about stuff
C30_StuffIsSame ==
    [][\A l \in DOMAIN loads :
         ReusesUndisturbed(l)
            => SameStuffRead(loads[l], previous_node(loads[l].i))]_vars

\* the rest of C30: the module, the URL and the session
C30_RestIsSame ==
    [][\A l \in DOMAIN loads :
         ReusesUndisturbed(l)
            => LET previous == previous_node(loads[l].i) IN
               /\ previous.module = routes[loads[l].route].a[loads[l].i]
               /\ previous.uses.url => path_search(previous.saw.url) = loads[l].id
               /\ previous.uses.session => previous.saw_session = session]_vars

-----------------------------------------------------------------------------
(* the branch and the route *)

\* the loads that produced a state of their own: they ran to their end and returned
\* neither a result of the cache nor a redirect
Produced ==
    { l \in DOMAIN loads :
        /\ loads[l].pc = "done"
        /\ ~loads[l].hit
        /\ loads[l].result.redirect = NoUrl }

\* C23: the branch of every state that load_route produced for a route has as many
\* positions as the route's `a`, and the node at position i, if there is one, was
\* loaded from a[i] (or is the error component that ends the branch), also when `a`
\* has empty slots and after an error boundary took over
C23_BranchAlignedWithRoute ==
    \A l \in Produced :
        LET branch == loads[l].result.state.branch
            a == routes[loads[l].route].a
        IN  /\ Len(branch) = Len(a)
            /\ \A i \in DOMAIN branch :
                  \/ branch[i] = NoNode
                  \/ branch[i].module = a[i]
                  \/ i = Len(branch) /\ loads[l].result.state.error # "none"

\* the part of C23 that is about loads without error
C23_AlignedWithoutError ==
    \A l \in Produced :
        loads[l].result.state.error = "none"
            => Len(loads[l].result.state.branch) = Len(routes[loads[l].route].a)

\* the stuff of the first n nodes of a branch, merged from left to right over the
\* empty root stuff
RECURSIVE StuffOf(_, _)
StuffOf(branch, n) ==
    IF n = 0 THEN NoStuff
    ELSE Merge(StuffOf(branch, n - 1), loaded_stuff(branch[n]))

\* C32: the stuff of every state load_route produces is the merge, from left to
\* right, of the stuff returned by the nodes of the state's branch and of nothing else
C32_StuffIsOfBranch ==
    \A l \in Produced :
        loads[l].result.state.stuff
            = StuffOf(loads[l].result.state.branch, Len(loads[l].result.state.branch))

\* the same for the loads that ended without an error
C32_StuffIsOfBranchWithoutError ==
    \A l \in Produced :
        loads[l].result.state.error = "none"
            => loads[l].result.state.stuff
                = StuffOf(loads[l].result.state.branch,
                          Len(loads[l].result.state.branch))

-----------------------------------------------------------------------------
(* one state at a time *)

\* the app has started, the document stays, and no update() call is under way
NoUpdateExecuting ==
    /\ started
    /\ ~unloaded
    /\ ~updating
    /\ \A u \in DOMAIN upd :
          upd[u].pc \in {"done", "aborted", "redirected", "threw", "native"}

\* the components on screen and `current` come from one result, and the active
\* history entry is the URL of that result
ComponentsAreCurrent ==
    /\ location = current.url
    /\ \A u \in DOMAIN upd :
          (upd[u].pc = "done" /\ upd[u].result.rid = rendered.rid)
              => upd[u].result.state = current

\* C24: whenever no update is executing, the components and the props on screen
\* (the page prop included), the current NavigationState and the URL of the active
\* history entry come from one and the same committed result
C24_OneStateVisible ==
    NoUpdateExecuting => (ComponentsAreCurrent /\ rendered.url = current.url)

\* the same but for the page prop
C24_OneStateButForPage ==
    NoUpdateExecuting => ComponentsAreCurrent

-----------------------------------------------------------------------------
(* the steps of a commit *)

-----------------------------------------------------------------------------
(* the navigating store *)

\* every load_route call has settled, no update() call is under way and none is queued
AllResolved ==
    /\ NoUpdateExecuting
    /\ invalidating = 0
    /\ \A l \in DOMAIN loads : Settled(l)

\* C28: once every load has resolved and no update is in flight (and the document
\* was not left), the navigating store is null, whatever became of the navigations
\* that published to it
C28_NavigatingIsCleared == AllResolved => navigating = NotNavigating

\* the same but for the navigations that an update of invalidate() or of the session
\* store superseded
C28_ClearedUnlessSuperseded ==
    (AllResolved /\ \A u \in DOMAIN upd : upd[u].has_opts) => navigating = NotNavigating

-----------------------------------------------------------------------------
(* the history index *)

\* no popstate is being handled: no history.go() of a cancelled popstate is pending,
\* and no hashchange event is waiting for its listener
NoPopstateHandled == hist.go = 0 /\ ~hist.hashchange

\* the index key of the active history entry (0: the entry has none)
ActiveIndex == hist.entries[hist.pos].index

\* current_history_index is the index key of the active entry
IndexIsOfActiveEntry == NoPopstateHandled => current_history_index = ActiveIndex

\* adjacent entries with an index key have consecutive indices
AdjacentAreConsecutive ==
    \A k \in 1..(Len(hist.entries) - 1) :
        (hist.entries[k].index # 0 /\ hist.entries[k + 1].index # 0)
            => hist.entries[k + 1].index = hist.entries[k].index + 1

\* a step in which an update committed with a history change
CommittedWith(replaceState) ==
    \E u \in DOMAIN upd :
        /\ upd[u].pc \in {"load", "check"}
        /\ upd'[u].pc \in {"tick", "done"}
        /\ upd[u].has_details
        /\ upd[u].replaceState = replaceState

\* a push gives the new entry the index before plus one, a replace keeps the index,
\* an accepted popstate takes the index of its entry, and the hashchange of a click
\* on a fragment link gives the new entry the index before plus one
IndexSteps ==
    /\ CommittedWith(FALSE) =>
          /\ hist'.pos = hist.pos + 1
          /\ ActiveIndex' = current_history_index + 1
          /\ current_history_index' = current_history_index + 1
    /\ CommittedWith(TRUE) =>
          /\ hist'.pos = hist.pos
          /\ ActiveIndex' = current_history_index
          /\ current_history_index' = current_history_index
    /\ (\E u \in DOMAIN upd' \ DOMAIN upd : upd'[u].kind = "popstate") =>
          current_history_index' = ActiveIndex'
    /\ (hist.hashchange /\ ~hist'.hashchange /\ hash_navigating) =>
          /\ ActiveIndex' = current_history_index + 1
          /\ current_history_index' = current_history_index + 1

\* C35: whenever no popstate is being handled current_history_index is the index key
\* of the active history entry; a committed push gives the new entry the index
\* before plus one, a committed replace keeps it, an accepted popstate takes the
\* index of its entry, a click on a fragment link gives the new entry the index
\* before plus one; adjacent entries made by the app have consecutive indices
C35_HistoryIndexConsistent ==
    /\ [](IndexIsOfActiveEntry /\ AdjacentAreConsecutive)
    /\ [][IndexSteps]_vars

C35_StepsAreAsStated == [][IndexSteps]_vars

C35_ActiveEntryHasIndex == IndexIsOfActiveEntry

C35_AdjacentAreConsecutive == AdjacentAreConsecutive

-----------------------------------------------------------------------------
(* navigations and the updates of invalidate() and of the session store *)

\* the calls of navigate() that were accepted, for a URL other than the document's,
\* that no later call of navigate() superseded and that ended neither in a redirect
\* nor in a native navigation
Standing ==
    { u \in DOMAIN upd :
        /\ upd[u].kind = "goto"
        /\ upd[u].url # upd[u].from
        /\ \A v \in DOMAIN upd : v > u => upd[v].kind # "goto"
        /\ upd[u].pc \notin {"redirected", "native"} }

\* the updates of invalidate() and of the session subscriber started after update u
Refreshes(u) ==
    { v \in DOMAIN upd : v > u /\ upd[v].kind \in {"invalidate", "session"} }

\* C34: a navigation that is in flight when invalidate() is called or the session
\* store changes is not lost: once everything has resolved, a navigation that no
\* later navigation superseded, that was not blocked and that ended neither in a
\* redirect nor in a native navigation has committed the state of its target
C34_NavigationIsNotLost ==
    AllResolved =>
        \A u \in Standing : upd[u].pc = "done" /\ upd[u].result.state.url = upd[u].url

\* the same for the navigations that no update of invalidate() or of the session
\* store followed
C34_NotLostUnlessRefreshed ==
    AllResolved =>
        \A u \in Standing :
            Refreshes(u) = {} =>
                upd[u].pc = "done" /\ upd[u].result.state.url = upd[u].url

\* a navigation was committed although the session store changed, or invalidate()
\* was called, while it was in flight
C34_Survived ==
    /\ AllResolved
    /\ \E u \in Standing : Refreshes(u) # {} /\ upd[u].pc = "done"

-----------------------------------------------------------------------------
(* the error walk *)

\* the loads in which a loader of `a` failed: load_route left its loop at a position
\* of the route, with neither a redirect nor a result of the cache
Failed ==
    { l \in DOMAIN loads :
        /\ Settled(l)
        /\ loads[l].route # 0
        /\ loads[l].i \in 1..Len(routes[loads[l].route].a)
        /\ loads[l].pc = "done" => loads[l].result.redirect = NoUrl }

\* the positions below the failing one where the route has an error component
Boundaries(l) ==
    { t \in 1..(loads[l].i - 1) :
        t <= Len(routes[loads[l].route].b) /\ routes[loads[l].route].b[t] # "none" }

\* those whose loader, for this URL, neither throws nor returns an error
Sound(l) ==
    { t \in Boundaries(l) :
        Returned(cfg.mods[routes[loads[l].route].b[t]], loads[l].url)
            \notin {"throw", "nothing", "error"} }

\* the nearest of them
Nearest(l) == CHOOSE t \in Sound(l) : \A o \in Sound(l) : o <= t

\* the boundaries load l tried
Tried(l) == { n[2] : n \in { m \in loads[l].ran : m[3] = "b" } }

\* what the failing loader left in status and error
FailedWith(l) ==
    LET beh == cfg.mods[routes[loads[l].route].a[loads[l].i]] IN
    CASE Returned(beh, loads[l].url) = "error" ->
            [status |-> beh.status, error |-> "load error"]
      [] Returned(beh, loads[l].url) = "nothing" ->
            [status |-> 500, error |-> MissingReturn]
      [] OTHER -> [status |-> 500, error |-> "thrown by load"]

\* C25: when the loader at position k fails, the boundaries below k are tried from
\* k - 1 downwards, the positions without an error component being skipped; the
\* first whose loader neither throws nor returns an error ends the walk and ends the
\* branch, a failing one sends the walk further down; when none is left (k being the
\* first position included) load_route goes to load_root_error_page, and the result
\* it returns is made of the root layout and the default error component alone, with
\* no params, none of the route's stuff, and the status and error of the failure
C25_NearestSoundBoundary ==
    \A l \in Failed :
        /\ Tried(l) = IF Sound(l) = {} THEN Boundaries(l)
                      ELSE { t \in Boundaries(l) : t >= Nearest(l) }
        /\ Sound(l) # {}
              => /\ loads[l].pc = "done"
                 /\ ~loads[l].at_root
                 /\ Last(loads[l].result.state.branch).nid = << l, Nearest(l), "b" >>
        /\ Sound(l) = {} => loads[l].at_root
        /\ (loads[l].at_root /\ loads[l].pc = "done")
              => LET got == loads[l].result IN
                 /\ got.root_error
                 /\ Len(got.state.branch) = 2
                 /\ got.state.branch[1].nid = << l, 1, "root" >>
                 /\ got.state.branch[1].module = default_layout
                 /\ got.state.branch[2].nid = << l, 2, "root" >>
                 /\ got.state.branch[2].module = default_error
                 /\ got.state.params = NoParams
                 /\ got.state.stuff = Merge(loaded_stuff(got.state.branch[1]),
                                            loaded_stuff(got.state.branch[2]))
                 /\ got.status = FailedWith(l).status
                 /\ got.state.error = FailedWith(l).error

\* the page of /n failed, the error component of the first directory failed too and
\* the root error component rendered the error; and in another world the walk found
\* no boundary that loads and the root error page was committed
C25_Witness ==
    \E u \in DOMAIN upd :
        /\ Committed(u)
        /\ upd[u].load \in Failed
        /\ loads[upd[u].load].i = 4
        /\ Tried(upd[u].load) = {1, 2}
        /\ Last(upd[u].result.state.branch).module = "E0"
        /\ ~upd[u].result.root_error
        /\ upd[u].result.status = 403
        /\ rendered.rid = upd[u].result.rid

\* no boundary loaded and the root error page was committed
C25_RootWitness ==
    \E u \in DOMAIN upd :
        /\ Committed(u)
        /\ upd[u].load \in Failed
        /\ loads[upd[u].load].i = 4
        /\ Tried(upd[u].load) = {1, 2}
        /\ upd[u].result.root_error
        /\ upd[u].result.status = 403
        /\ loads[upd[u].load].stuff # NoStuff
        /\ upd[u].result.state.stuff = NoStuff

\* the root layout failed: no boundary is tried
C25_FirstWitness ==
    \E u \in DOMAIN upd :
        /\ Committed(u)
        /\ upd[u].load \in Failed
        /\ loads[upd[u].load].i = 1
        /\ Tried(upd[u].load) = {}
        /\ upd[u].result.root_error

\* the modules of a sequence of nodes, the empty slots left out
Modules(nodes) ==
    SelectSeq([n \in 1..Len(nodes) |-> nodes[n].module], LAMBDA m : m # "none")

\* the loads whose loop of load_route was left on a failure and that have a boundary
\* to try
Walking ==
    { l \in DOMAIN loads :
        /\ loads[l].route # 0
        /\ loads[l].pc \in {"done", "rejected", "diverged"}
        /\ loads[l].i \in 1..Len(routes[loads[l].route].a)
        /\ loads[l].pc = "done" => loads[l].result.redirect = NoUrl
        /\ Boundaries(l) # {} }

\* C33: whatever the route has in `a` and `b` and whichever position fails, the walk
\* ends: the search for a loaded node under a boundary stops at a node of the branch
\* (it never goes below the first slot), and load_route ends with the branch a
\* boundary recovered or with what load_root_error_page gives
C33_WalkTerminates ==
    \A l \in Walking :
        /\ loads[l].pc # "diverged"
        /\ loads[l].pc = "done" =>
              \/ loads[l].at_root
              \/ Last(loads[l].result.state.branch).nid[3] = "b"

\* the same for the routes whose first slot of `a` has a layout
C33_WalkTerminatesUnderLayout ==
    \A l \in Walking :
        routes[loads[l].route].a[1] # "none" =>
            /\ loads[l].pc # "diverged"
            /\ loads[l].pc = "done" =>
                  \/ loads[l].at_root
                  \/ Last(loads[l].result.state.branch).nid[3] = "b"

\* a walk that ended although a slot of `a` below the failing position is empty
C33_Ended ==
    \E l \in Walking :
        /\ loads[l].pc = "done"
        /\ \E t \in 1..(loads[l].i - 1) : routes[loads[l].route].a[t] = "none"

\* the loads a boundary recovered
Recovered ==
    { l \in Failed : loads[l].pc = "done" /\ ~loads[l].at_root }

\* C26: when a boundary recovers a failure the branch of the result is the nodes
\* loaded at the positions up to the boundary's, followed by the boundary node; no
\* loader of a later position of the route ran; and the result carries the status
\* and the error of the loader that failed
C26_TruncatedAtBoundary ==
    \A l \in Recovered :
        LET got == loads[l].result.state.branch
            at == Last(got).nid[2]
            a == routes[loads[l].route].a
        IN /\ Last(got).nid = << l, at, "b" >>
           /\ Modules(SubSeq(got, 1, Len(got) - 1))
                = SelectSeq(SubSeq(a, 1, at), LAMBDA m : m # "none")
           /\ \A n \in loads[l].ran : n[3] = "a" => n[2] <= loads[l].i
           /\ loads[l].result.status = FailedWith(l).status
           /\ loads[l].result.state.error = FailedWith(l).error

\* the same but for the nodes kept in front of the boundary node
C26_EndsWithBoundary ==
    \A l \in Recovered :
        /\ Last(loads[l].result.state.branch).nid[3] = "b"
        /\ \A n \in loads[l].ran : n[3] = "a" => n[2] <= loads[l].i
        /\ loads[l].result.status = FailedWith(l).status
        /\ loads[l].result.state.error = FailedWith(l).error

-----------------------------------------------------------------------------
(* errors of loaders *)

\* C8 (as the specification states it): load_root_error_page always yields a result:
\* no load_route call is rejected and no update() throws.
C8_RootErrorPageAlwaysRenders ==
    /\ \A l \in DOMAIN loads : loads[l].pc # "rejected"
    /\ \A u \in DOMAIN upd : upd[u].pc # "threw"

\* the loaders of `a` that load l ran and that returned nothing
ReturnedNothing(l) ==
    { n \in loads[l].ran : n[3] = "a" /\ cfg.mods[routes[loads[l].route].a[n[2]]].ret = "nothing" }

\* the boundaries below the position where load l failed whose loader returns a value
Loadable(l) ==
    { t \in 1..(loads[l].i - 1) :
        /\ t <= Len(routes[loads[l].route].b)
        /\ routes[loads[l].route].b[t] # "none"
        /\ cfg.mods[routes[loads[l].route].b[t]].ret = "value" }

\* C9 (as the specification states it): when a loader returned nothing, no boundary's
\* loader is run and load_route goes to the root error page.
C9_NoBoundaryForMissingReturn ==
    \A l \in DOMAIN loads :
        Settled(l) /\ ReturnedNothing(l) # {}
            => /\ \A n \in loads[l].ran : n[3] # "b"
               /\ loads[l].at_root

\* C9 (amended): a loader that returns nothing raises "load function must return a
\* value", which load_route handles as any error thrown by a loader, with status 500:
\* the boundaries below the failing node are tried, the nearest first, the first one
\* that loads renders the error, and the root error page is used only when none does.
C9_MissingReturnWalksBoundaries ==
    \A l \in DOMAIN loads :
        Settled(l) /\ ReturnedNothing(l) # {}
            => /\ loads[l].at_root <=> Loadable(l) = {}
               /\ loads[l].pc = "done"
                    => /\ loads[l].result.status = 500
                       /\ loads[l].result.state.error = MissingReturn
               /\ Loadable(l) # {}
                    => /\ loads[l].pc = "done"
                       /\ Last(loads[l].result.state.branch).nid
                            = << l, CHOOSE t \in Loadable(l) :
                                        \A o \in Loadable(l) : o <= t, "b" >>

\* the page of /c returned nothing and the boundary of its layout was committed with
\* the error
C9_Witness ==
    \E u \in DOMAIN upd :
        /\ Committed(u)
        /\ upd[u].url = Plain("/c")
        /\ upd[u].result.state.error = MissingReturn
        /\ upd[u].result.status = 500
        /\ Last(upd[u].result.state.branch).module = "E1"
        /\ ~upd[u].result.root_error

-----------------------------------------------------------------------------
(* the session *)

\* every node of a state that read the session read the value the store has now
ReadCurrentSession(state) ==
    \A n \in DOMAIN state.branch :
        state.branch[n].uses.session => state.branch[n].saw_session = session

\* the state belongs to the session the router is in
OfThisSession(state) == state.session_id = session_id

\* C31: in the committed state, when its session_id is the router's, every node that
\* read the session read the current value; and no result in the cache that carries
\* the router's session_id holds a node that read an earlier value of the session
C31_SessionConsistent ==
    /\ (started /\ OfThisSession(current)) => ReadCurrentSession(current)
    /\ \A k \in DOMAIN cache :
          OfThisSession(cache[k].state) => ReadCurrentSession(cache[k].state)

\* the part of C31 about the committed state
C31_CommittedIsConsistent ==
    (started /\ OfThisSession(current)) => ReadCurrentSession(current)

\* the part of C31 about the cache
C31_CacheIsConsistent ==
    \A k \in DOMAIN cache :
        OfThisSession(cache[k].state) => ReadCurrentSession(cache[k].state)

-----------------------------------------------------------------------------
(* scroll positions *)

\* navigate() accepted a navigation in this step: the scroll offset is recorded under
\* current_history_index as it was, and only a popstate moves the index, to that of
\* the entry the browser is on, after it read the offset recorded for that entry
AcceptedRecords ==
    (Len(upd') > Len(upd) /\ upd'[Len(upd')].has_opts)
        => /\ scroll_positions'
                = [k \in DOMAIN scroll_positions \cup {current_history_index} |->
                     IF k = current_history_index THEN scrollY ELSE scroll_positions[k]]
           /\ upd'[Len(upd')].kind # "popstate"
                => current_history_index' = current_history_index
           /\ upd'[Len(upd')].kind = "popstate"
                => LET index == hist'.entries[hist'.pos].index IN
                   /\ current_history_index' = index
                   /\ upd'[Len(upd')].scroll = IF index \in DOMAIN scroll_positions
                                               THEN scroll_positions[index]
                                               ELSE -1

\* where a back/forward navigation is to scroll: the offset recorded for its entry,
\* the element of its fragment when none was recorded, the origin otherwise
Target(u) ==
    IF upd[u].scroll >= 0 THEN upd[u].scroll
    ELSE IF upd[u].url.hash \in DOMAIN cfg.anchors THEN cfg.anchors[upd[u].url.hash]
    ELSE 0

\* update() of back/forward navigation u runs from its tick to its end in this step
Restoring(u) ==
    upd[u].kind = "popstate" /\ upd[u].pc = "tick" /\ upd'[u].pc = "done"

\* C29 (as the specification states it): every accepted navigation records the scroll
\* offset under the index of the entry being left before the index changes, and a
\* back/forward navigation scrolls to the offset recorded under the index of its
\* entry, else to the element of the fragment, else to the origin
C29_RecordedAndRestored ==
    [][/\ AcceptedRecords
       /\ \A u \in DOMAIN upd : Restoring(u) => scrollY' = Target(u)]_vars

\* C29 (amended): the same, the scroll being made when autoscroll is set at the time
\* update() reaches it; when scroll handling was disabled the offset stays as it is
C29_RestoredUnlessDisabled ==
    [][/\ AcceptedRecords
       /\ \A u \in DOMAIN upd :
            Restoring(u) => scrollY' = IF autoscroll THEN Target(u) ELSE scrollY]_vars

\* the user scrolled /b and went to /a, then back: the offset recorded when /b was
\* left was restored
C29_Witness ==
    \E u \in DOMAIN upd :
        /\ upd[u].kind = "popstate"
        /\ upd[u].pc = "done"
        /\ upd[u].autoscroll
        /\ upd[u].scroll = 1
        /\ current_history_index \in DOMAIN scroll_positions
        /\ scroll_positions[current_history_index] = 1
        /\ scrollY = 1

\* forward to /a#x, for which nothing was recorded: the element was scrolled into view
C29_DeepLinkWitness ==
    \E u \in DOMAIN upd :
        /\ upd[u].kind = "popstate"
        /\ upd[u].pc = "done"
        /\ upd[u].autoscroll
        /\ upd[u].scroll = -1
        /\ upd[u].url.hash = "x"
        /\ scrollY = 2

\* forward to /a, for which nothing was recorded and which has no fragment, from a
\* page the user had scrolled
C29_TopWitness ==
    \E u \in DOMAIN upd :
        /\ upd[u].kind = "popstate"
        /\ upd[u].pc = "done"
        /\ upd[u].autoscroll
        /\ upd[u].scroll = -1
        /\ upd[u].url.hash = ""
        /\ BaseIndex \in DOMAIN scroll_positions
        /\ scroll_positions[BaseIndex] = 1
        /\ scrollY = 0

-----------------------------------------------------------------------------
(* history and the scroll map *)

\* update u commits in this step
Commits(u) == upd[u].pc \in {"load", "check"} /\ upd'[u].pc = "tick"

\* every update() so far came from goto(url, { replaceState: true }) with the
\* committed URL
OnlyReplays == \A u \in DOMAIN upd : upd[u].replay

\* C7: a goto to the committed URL with replaceState: true records the scroll position
\* under the current history index and under no other key, and its commit leaves the
\* history index, the number of history entries and the active entry's position as
\* they were; after any number of them, and nothing else, the index is the initial
\* one, the history has its one entry and the scroll map at most the entry of that
\* index.
C7_ReplaceIsIdempotent ==
    [][/\ \A u \in DOMAIN upd' \ DOMAIN upd :
            upd'[u].replay
                => DOMAIN scroll_positions'
                     = DOMAIN scroll_positions \cup {current_history_index}
       /\ \A u \in DOMAIN upd :
            Commits(u) /\ upd[u].replay
                => /\ current_history_index' = current_history_index
                   /\ Len(hist'.entries) = Len(hist.entries)
                   /\ hist'.pos = hist.pos
                   /\ hist'.entries[hist'.pos] =
                        [url |-> upd[u].url, index |-> current_history_index]
       /\ OnlyReplays'
            => /\ current_history_index' = BaseIndex
               /\ Len(hist'.entries) = 1
               /\ DOMAIN scroll_positions' \subseteq {BaseIndex}]_vars

\* goto to the committed URL with replaceState: true was repeated MaxReplays times,
\* the user scrolling in between, and each of them has committed
C7_Witness ==
    /\ Len(upd) = MaxReplays
    /\ OnlyReplays
    /\ \A u \in DOMAIN upd : upd[u].pc = "done"
    /\ scroll_positions = [k \in {BaseIndex} |-> 1]

====
